---- MODULE Spec2Model ----
(***************************************************************************)
(* A model of the Bible text converters of this repository:                *)
(*   scripts/convert_kjv.py, scripts/convert_to_kjv_format.py  (Gutenberg   *)
(*   plaintext to the canonical "book / Chapter N / verse" format) and      *)
(*   scripts/convert_usfm_to_kjv_format.py (USFM markup to the same).       *)
(* A text is a sequence of one-character strings; the regular expressions   *)
(* of the source are written as syntax trees and run by a backtracking     *)
(* matcher with Python's priorities (leftmost, greedy or lazy as written). *)
(***************************************************************************)
EXTENDS Integers, Sequences, FiniteSets, TLC

\* ------------------------------------------------------------------------
\* Characters and Python's str helpers
\* ------------------------------------------------------------------------

Digit == {"0", "1", "2", "3", "4", "5", "6", "7", "8", "9"}

LowerAZ == {"a", "b", "c", "d", "e", "f", "g", "h", "i", "j", "k", "l", "m",
            "n", "o", "p", "q", "r", "s", "t", "u", "v", "w", "x", "y", "z"}

UpperAZ == {"A", "B", "C", "D", "E", "F", "G", "H", "I", "J", "K", "L", "M",
            "N", "O", "P", "Q", "R", "S", "T", "U", "V", "W", "X", "Y", "Z"}

\* Python's \s and str.strip()/str.split() whitespace.
Space == {" ", "\t", "\n", "\r", "\f"}

\* Two letters of the Hebrew block stand for the range [א-ת].
Hebrew == {"U05D0", "U05EA"}

\* Python's \w (for \b): letters of any script, digits and the underscore.
WordChar == Digit \cup LowerAZ \cup UpperAZ \cup {"_"} \cup Hebrew

BSL == "\\"
DQ == "\""

LowerSeq == <<"a", "b", "c", "d", "e", "f", "g", "h", "i", "j", "k", "l", "m",
              "n", "o", "p", "q", "r", "s", "t", "u", "v", "w", "x", "y", "z">>

UpperSeq == <<"A", "B", "C", "D", "E", "F", "G", "H", "I", "J", "K", "L", "M",
              "N", "O", "P", "Q", "R", "S", "T", "U", "V", "W", "X", "Y", "Z">>

\* str.upper() on one character.
UpperChar(c) ==
    IF c \in LowerAZ
    THEN UpperSeq[CHOOSE i \in 1..26 : LowerSeq[i] = c]
    ELSE c

\* str.upper()
StrUpper(s) == [i \in 1..Len(s) |-> UpperChar(s[i])]

\* str.strip(): the text without its leading and trailing whitespace.
Strip(s) ==
    LET ns == {i \in 1..Len(s) : s[i] \notin Space}
    IN IF ns = {} THEN <<>>
       ELSE SubSeq(s, CHOOSE i \in ns : \A j \in ns : i <= j,
                      CHOOSE i \in ns : \A j \in ns : i >= j)

\* str.rstrip()
RStrip(s) ==
    LET ns == {i \in 1..Len(s) : s[i] \notin Space}
    IN IF ns = {} THEN <<>>
       ELSE SubSeq(s, 1, CHOOSE i \in ns : \A j \in ns : i >= j)

\* sub in s  (substring test)
Contains(s, sub) ==
    \E i \in 1..(Len(s) - Len(sub) + 1) :
        \A k \in 1..Len(sub) : s[i + k - 1] = sub[k]

\* s.startswith(pre)
StartsWith(s, pre) ==
    /\ Len(pre) <= Len(s)
    /\ \A k \in 1..Len(pre) : s[k] = pre[k]

\* s.endswith(suf)
EndsWith(s, suf) ==
    /\ Len(suf) <= Len(s)
    /\ \A k \in 1..Len(suf) : s[Len(s) - Len(suf) + k] = suf[k]

RECURSIVE JoinWith(_, _)
\* sep.join(parts)
JoinWith(parts, sep) ==
    IF parts = <<>> THEN <<>>
    ELSE IF Len(parts) = 1 THEN parts[1]
    ELSE parts[1] \o sep \o JoinWith(Tail(parts), sep)

\* ' '.join(parts)
Join(parts) == JoinWith(parts, <<" ">>)

RECURSIVE SplitWs(_, _)
\* str.split(): the maximal runs of non-whitespace, from position i on.
SplitWs(s, i) ==
    IF i > Len(s) THEN <<>>
    ELSE IF s[i] \in Space THEN SplitWs(s, i + 1)
    ELSE LET stops == {j \in i..Len(s) : s[j] \in Space}
             e == IF stops = {} THEN Len(s) + 1
                  ELSE CHOOSE j \in stops : \A k \in stops : j <= k
         IN <<SubSeq(s, i, e - 1)>> \o SplitWs(s, e)

\* ' '.join(text.split())
NormWs(s) == Join(SplitWs(s, 1))

RECURSIVE StrToInt(_)
\* int(digits)
StrToInt(ds) ==
    IF ds = <<>> THEN 0
    ELSE 10 * StrToInt(SubSeq(ds, 1, Len(ds) - 1))
         + (CHOOSE d \in 0..9 : <<"0", "1", "2", "3", "4", "5", "6", "7", "8", "9">>[d + 1] = ds[Len(ds)])

RECURSIVE IntToStr(_)
\* str(n) for n >= 0
IntToStr(n) ==
    IF n < 10 THEN << <<"0", "1", "2", "3", "4", "5", "6", "7", "8", "9">>[n + 1] >>
    ELSE IntToStr(n \div 10) \o IntToStr(n % 10)

\* ------------------------------------------------------------------------
\* Regular expressions (Python's re): a backtracking matcher
\* ------------------------------------------------------------------------
\* A pattern is a tuple: <<"set", S>> one character of S; <<"not", S>> one
\* character outside S; <<"any">> the dot; <<"seq", <<p1, ..., pn>>>>;
\* <<"alt", <<p1, ..., pn>>>>; <<"rep", p, min, greedy>> (p repeated min or
\* more times); <<"grp", k, p>> capture group k; <<"la", p>> the lookahead
\* (?=p); <<"bos">> ^; <<"eos">> $; <<"wb">> \b.
\* A match state is [p |-> next position, c |-> captures], captures being
\* <<start, end>> pairs (end exclusive) by group number.

NoCaps == << <<0, 0>>, <<0, 0>> >>

ReSet(S) == <<"set", S>>
ReNot(S) == <<"not", S>>
ReSeq(ps) == <<"seq", ps>>
ReAlt(ps) == <<"alt", ps>>
ReStar(p) == <<"rep", p, 0, TRUE>>
RePlus(p) == <<"rep", p, 1, TRUE>>
ReStarLazy(p) == <<"rep", p, 0, FALSE>>
ReGrp(k, p) == <<"grp", k, p>>
ReLook(p) == <<"la", p>>
ReLit(s) == <<"seq", [i \in 1..Len(s) |-> <<"set", {s[i]}>>]>>
\* a literal under re.IGNORECASE
ReLitI(s) == <<"seq", [i \in 1..Len(s) |->
                  <<"set", {s[i], UpperChar(s[i])} \cup {c \in LowerAZ : UpperChar(c) = s[i]}>>]>>

IsWordAt(s, i) == i >= 1 /\ i <= Len(s) /\ s[i] \in WordChar

\* a pattern that consumes exactly one character
IsCharPattern(r) == r[1] \in {"set", "not", "any"}

CharOk(r, ch) ==
    CASE r[1] = "set" -> ch \in r[2]
      [] r[1] = "not" -> ch \notin r[2]
      [] r[1] = "any" -> ch # "\n"

\* how many successive characters of s from position p the pattern r accepts
CharRun(r, s, p) ==
    LET bad == {j \in p..Len(s) : ~CharOk(r, s[j])}
    IN IF bad = {} THEN Len(s) + 1 - p
       ELSE (CHOOSE j \in bad : \A k \in bad : j <= k) - p

RECURSIVE ReM(_, _, _), ReMSeq(_, _, _, _), ReMSeqAll(_, _, _, _),
          ReMAlt(_, _, _, _), ReMRep(_, _, _, _), ReMRepAll(_, _, _, _)

\* every way pattern r matches s from state st, the preferred way first
ReM(r, s, st) ==
    CASE r[1] = "set" ->
            IF st.p <= Len(s) /\ s[st.p] \in r[2]
            THEN <<[st EXCEPT !.p = @ + 1]>> ELSE <<>>
      [] r[1] = "not" ->
            IF st.p <= Len(s) /\ s[st.p] \notin r[2]
            THEN <<[st EXCEPT !.p = @ + 1]>> ELSE <<>>
      [] r[1] = "any" ->
            IF st.p <= Len(s) /\ s[st.p] # "\n"
            THEN <<[st EXCEPT !.p = @ + 1]>> ELSE <<>>
      [] r[1] = "seq" -> ReMSeq(r[2], 1, s, st)
      [] r[1] = "alt" -> ReMAlt(r[2], 1, s, st)
      [] r[1] = "rep" -> ReMRep(r, s, st, 0)
      [] r[1] = "grp" ->
            LET inner == ReM(r[3], s, st)
            IN [i \in 1..Len(inner) |->
                   [inner[i] EXCEPT !.c[r[2]] = <<st.p, inner[i].p>>]]
      [] r[1] = "la" -> IF ReM(r[2], s, st) # <<>> THEN <<st>> ELSE <<>>
      [] r[1] = "bos" -> IF st.p = 1 THEN <<st>> ELSE <<>>
      [] r[1] = "eos" ->
            IF st.p = Len(s) + 1 \/ (st.p = Len(s) /\ s[st.p] = "\n")
            THEN <<st>> ELSE <<>>
      [] r[1] = "wb" ->
            IF IsWordAt(s, st.p - 1) # IsWordAt(s, st.p) THEN <<st>> ELSE <<>>

ReMSeq(ps, k, s, st) ==
    IF k > Len(ps) THEN <<st>>
    ELSE ReMSeqAll(ps, k + 1, s, ReM(ps[k], s, st))

ReMSeqAll(ps, k, s, sts) ==
    IF sts = <<>> THEN <<>>
    ELSE ReMSeq(ps, k, s, Head(sts)) \o ReMSeqAll(ps, k, s, Tail(sts))

ReMAlt(ps, k, s, st) ==
    IF k > Len(ps) THEN <<>>
    ELSE ReM(ps[k], s, st) \o ReMAlt(ps, k + 1, s, st)

\* the repetition r from state st after n rounds; a round that consumes
\* nothing ends the repetition, and a one-character body is matched as a run
ReMRep(r, s, st, n) ==
    IF IsCharPattern(r[2])
    THEN LET run == CharRun(r[2], s, st.p)
             cnt == run - r[3] + 1
         IN IF cnt <= 0 THEN <<>>
            ELSE [i \in 1..cnt |->
                     [st EXCEPT !.p = IF r[4] THEN st.p + run - (i - 1)
                                      ELSE st.p + r[3] + (i - 1)]]
    ELSE LET one == SelectSeq(ReM(r[2], s, st), LAMBDA t : t.p > st.p)
             more == ReMRepAll(r, s, one, n + 1)
             stop == IF n >= r[3] THEN <<st>> ELSE <<>>
         IN IF r[4] THEN more \o stop ELSE stop \o more

ReMRepAll(r, s, sts, n) ==
    IF sts = <<>> THEN <<>>
    ELSE ReMRep(r, s, Head(sts), n) \o ReMRepAll(r, s, Tail(sts), n)

\* the match [b, e) with its captures that the matcher's states ms start at b
FirstMatch(ms, b) ==
    IF ms = <<>> THEN <<>> ELSE <<[b |-> b, e |-> Head(ms).p, c |-> Head(ms).c]>>

\* re.match(r, s): the preferred match at the start of s, <<>> when none
ReMatch(r, s) == FirstMatch(ReM(r, s, [p |-> 1, c |-> NoCaps]), 1)

\* the match of r at the least position of hits, <<>> when hits is empty
ReSearchAt(r, s, hits) ==
    IF hits = {} THEN <<>>
    ELSE FirstMatch(ReM(r, s, [p |-> CHOOSE j \in hits : \A k \in hits : j <= k,
                               c |-> NoCaps]),
                    CHOOSE j \in hits : \A k \in hits : j <= k)

\* re.search from position i: the leftmost match [b, e) with its captures
ReSearchFrom(r, s, i) ==
    ReSearchAt(r, s, {j \in i..(Len(s) + 1) : ReM(r, s, [p |-> j, c |-> NoCaps]) # <<>>})

ReSearch(r, s) == ReSearchFrom(r, s, 1)

RECURSIVE ReFindIter(_, _, _), ReFindIterAt(_, _, _)
\* list(r.finditer(s)) from position i: the successive non-overlapping matches
ReFindIter(r, s, i) == ReFindIterAt(r, s, ReSearchFrom(r, s, i))

\* ... m being the search result
ReFindIterAt(r, s, m) ==
    IF m = <<>> THEN <<>>
    ELSE <<m[1]>> \o ReFindIter(r, s, IF m[1].e > m[1].b THEN m[1].e ELSE m[1].e + 1)

\* match.group(k)
Group(s, m, k) == SubSeq(s, m.c[k][1], m.c[k][2] - 1)

\* match.group(0)
Group0(s, m) == SubSeq(s, m.b, m.e - 1)

RECURSIVE ReSubLit(_, _, _), ReSubLitAt(_, _, _, _)
\* re.sub(r, rep, s) with a constant replacement rep
ReSubLit(r, rep, s) == ReSubLitAt(r, rep, s, ReSearch(r, s))

\* ... m being the search result
ReSubLitAt(r, rep, s, m) ==
    IF m = <<>> \/ m[1].e = m[1].b THEN s
    ELSE SubSeq(s, 1, m[1].b - 1) \o rep \o ReSubLit(r, rep, SubSeq(s, m[1].e, Len(s)))

RECURSIVE StrReplace(_, _)
\* s.replace(old, '')
StrReplace(s, old) ==
    IF Len(s) < Len(old) THEN s
    ELSE IF StartsWith(s, old) THEN StrReplace(SubSeq(s, Len(old) + 1, Len(s)), old)
    ELSE <<s[1]>> \o StrReplace(Tail(s), old)

\* ------------------------------------------------------------------------
\* The books
\* ------------------------------------------------------------------------

\* Gutenberg book title -> canonical book name, in the order of the source
book_mapping == <<
    << <<"T", "h", "e", " ", "F", "i", "r", "s", "t", " ", "B", "o", "o", "k", " ", "o", "f", " ", "M", "o", "s", "e", "s", ":", " ", "C", "a", "l", "l", "e", "d", " ", "G", "e", "n", "e", "s", "i", "s">>,
       <<"G", "e", "n", "e", "s", "i", "s">> >>,
    << <<"T", "h", "e", " ", "S", "e", "c", "o", "n", "d", " ", "B", "o", "o", "k", " ", "o", "f", " ", "M", "o", "s", "e", "s", ":", " ", "C", "a", "l", "l", "e", "d", " ", "E", "x", "o", "d", "u", "s">>,
       <<"E", "x", "o", "d", "u", "s">> >>,
    << <<"T", "h", "e", " ", "T", "h", "i", "r", "d", " ", "B", "o", "o", "k", " ", "o", "f", " ", "M", "o", "s", "e", "s", ":", " ", "C", "a", "l", "l", "e", "d", " ", "L", "e", "v", "i", "t", "i", "c", "u", "s">>,
       <<"L", "e", "v", "i", "t", "i", "c", "u", "s">> >>,
    << <<"T", "h", "e", " ", "F", "o", "u", "r", "t", "h", " ", "B", "o", "o", "k", " ", "o", "f", " ", "M", "o", "s", "e", "s", ":", " ", "C", "a", "l", "l", "e", "d", " ", "N", "u", "m", "b", "e", "r", "s">>,
       <<"N", "u", "m", "b", "e", "r", "s">> >>,
    << <<"T", "h", "e", " ", "F", "i", "f", "t", "h", " ", "B", "o", "o", "k", " ", "o", "f", " ", "M", "o", "s", "e", "s", ":", " ", "C", "a", "l", "l", "e", "d", " ", "D", "e", "u", "t", "e", "r", "o", "n", "o", "m", "y">>,
       <<"D", "e", "u", "t", "e", "r", "o", "n", "o", "m", "y">> >>,
    << <<"T", "h", "e", " ", "B", "o", "o", "k", " ", "o", "f", " ", "J", "o", "s", "h", "u", "a">>,
       <<"J", "o", "s", "h", "u", "a">> >>,
    << <<"T", "h", "e", " ", "B", "o", "o", "k", " ", "o", "f", " ", "J", "u", "d", "g", "e", "s">>,
       <<"J", "u", "d", "g", "e", "s">> >>,
    << <<"T", "h", "e", " ", "B", "o", "o", "k", " ", "o", "f", " ", "R", "u", "t", "h">>,
       <<"R", "u", "t", "h">> >>,
    << <<"T", "h", "e", " ", "F", "i", "r", "s", "t", " ", "B", "o", "o", "k", " ", "o", "f", " ", "S", "a", "m", "u", "e", "l">>,
       <<"1", " ", "S", "a", "m", "u", "e", "l">> >>,
    << <<"T", "h", "e", " ", "S", "e", "c", "o", "n", "d", " ", "B", "o", "o", "k", " ", "o", "f", " ", "S", "a", "m", "u", "e", "l">>,
       <<"2", " ", "S", "a", "m", "u", "e", "l">> >>,
    << <<"T", "h", "e", " ", "F", "i", "r", "s", "t", " ", "B", "o", "o", "k", " ", "o", "f", " ", "t", "h", "e", " ", "K", "i", "n", "g", "s">>,
       <<"1", " ", "K", "i", "n", "g", "s">> >>,
    << <<"T", "h", "e", " ", "S", "e", "c", "o", "n", "d", " ", "B", "o", "o", "k", " ", "o", "f", " ", "t", "h", "e", " ", "K", "i", "n", "g", "s">>,
       <<"2", " ", "K", "i", "n", "g", "s">> >>,
    << <<"T", "h", "e", " ", "F", "i", "r", "s", "t", " ", "B", "o", "o", "k", " ", "o", "f", " ", "t", "h", "e", " ", "C", "h", "r", "o", "n", "i", "c", "l", "e", "s">>,
       <<"1", " ", "C", "h", "r", "o", "n", "i", "c", "l", "e", "s">> >>,
    << <<"T", "h", "e", " ", "S", "e", "c", "o", "n", "d", " ", "B", "o", "o", "k", " ", "o", "f", " ", "t", "h", "e", " ", "C", "h", "r", "o", "n", "i", "c", "l", "e", "s">>,
       <<"2", " ", "C", "h", "r", "o", "n", "i", "c", "l", "e", "s">> >>,
    << <<"E", "z", "r", "a">>,
       <<"E", "z", "r", "a">> >>,
    << <<"T", "h", "e", " ", "B", "o", "o", "k", " ", "o", "f", " ", "N", "e", "h", "e", "m", "i", "a", "h">>,
       <<"N", "e", "h", "e", "m", "i", "a", "h">> >>,
    << <<"T", "h", "e", " ", "B", "o", "o", "k", " ", "o", "f", " ", "E", "s", "t", "h", "e", "r">>,
       <<"E", "s", "t", "h", "e", "r">> >>,
    << <<"T", "h", "e", " ", "B", "o", "o", "k", " ", "o", "f", " ", "J", "o", "b">>,
       <<"J", "o", "b">> >>,
    << <<"T", "h", "e", " ", "B", "o", "o", "k", " ", "o", "f", " ", "P", "s", "a", "l", "m", "s">>,
       <<"P", "s", "a", "l", "m", "s">> >>,
    << <<"T", "h", "e", " ", "P", "r", "o", "v", "e", "r", "b", "s">>,
       <<"P", "r", "o", "v", "e", "r", "b", "s">> >>,
    << <<"E", "c", "c", "l", "e", "s", "i", "a", "s", "t", "e", "s">>,
       <<"E", "c", "c", "l", "e", "s", "i", "a", "s", "t", "e", "s">> >>,
    << <<"T", "h", "e", " ", "S", "o", "n", "g", " ", "o", "f", " ", "S", "o", "l", "o", "m", "o", "n">>,
       <<"S", "o", "n", "g", " ", "o", "f", " ", "S", "o", "l", "o", "m", "o", "n">> >>,
    << <<"T", "h", "e", " ", "B", "o", "o", "k", " ", "o", "f", " ", "t", "h", "e", " ", "P", "r", "o", "p", "h", "e", "t", " ", "I", "s", "a", "i", "a", "h">>,
       <<"I", "s", "a", "i", "a", "h">> >>,
    << <<"T", "h", "e", " ", "B", "o", "o", "k", " ", "o", "f", " ", "t", "h", "e", " ", "P", "r", "o", "p", "h", "e", "t", " ", "J", "e", "r", "e", "m", "i", "a", "h">>,
       <<"J", "e", "r", "e", "m", "i", "a", "h">> >>,
    << <<"T", "h", "e", " ", "L", "a", "m", "e", "n", "t", "a", "t", "i", "o", "n", "s", " ", "o", "f", " ", "J", "e", "r", "e", "m", "i", "a", "h">>,
       <<"L", "a", "m", "e", "n", "t", "a", "t", "i", "o", "n", "s">> >>,
    << <<"T", "h", "e", " ", "B", "o", "o", "k", " ", "o", "f", " ", "t", "h", "e", " ", "P", "r", "o", "p", "h", "e", "t", " ", "E", "z", "e", "k", "i", "e", "l">>,
       <<"E", "z", "e", "k", "i", "e", "l">> >>,
    << <<"T", "h", "e", " ", "B", "o", "o", "k", " ", "o", "f", " ", "D", "a", "n", "i", "e", "l">>,
       <<"D", "a", "n", "i", "e", "l">> >>,
    << <<"H", "o", "s", "e", "a">>,
       <<"H", "o", "s", "e", "a">> >>,
    << <<"J", "o", "e", "l">>,
       <<"J", "o", "e", "l">> >>,
    << <<"A", "m", "o", "s">>,
       <<"A", "m", "o", "s">> >>,
    << <<"O", "b", "a", "d", "i", "a", "h">>,
       <<"O", "b", "a", "d", "i", "a", "h">> >>,
    << <<"J", "o", "n", "a", "h">>,
       <<"J", "o", "n", "a", "h">> >>,
    << <<"M", "i", "c", "a", "h">>,
       <<"M", "i", "c", "a", "h">> >>,
    << <<"N", "a", "h", "u", "m">>,
       <<"N", "a", "h", "u", "m">> >>,
    << <<"H", "a", "b", "a", "k", "k", "u", "k">>,
       <<"H", "a", "b", "a", "k", "k", "u", "k">> >>,
    << <<"Z", "e", "p", "h", "a", "n", "i", "a", "h">>,
       <<"Z", "e", "p", "h", "a", "n", "i", "a", "h">> >>,
    << <<"H", "a", "g", "g", "a", "i">>,
       <<"H", "a", "g", "g", "a", "i">> >>,
    << <<"Z", "e", "c", "h", "a", "r", "i", "a", "h">>,
       <<"Z", "e", "c", "h", "a", "r", "i", "a", "h">> >>,
    << <<"M", "a", "l", "a", "c", "h", "i">>,
       <<"M", "a", "l", "a", "c", "h", "i">> >>,
    << <<"T", "h", "e", " ", "G", "o", "s", "p", "e", "l", " ", "A", "c", "c", "o", "r", "d", "i", "n", "g", " ", "t", "o", " ", "S", "a", "i", "n", "t", " ", "M", "a", "t", "t", "h", "e", "w">>,
       <<"M", "a", "t", "t", "h", "e", "w">> >>,
    << <<"T", "h", "e", " ", "G", "o", "s", "p", "e", "l", " ", "A", "c", "c", "o", "r", "d", "i", "n", "g", " ", "t", "o", " ", "S", "a", "i", "n", "t", " ", "M", "a", "r", "k">>,
       <<"M", "a", "r", "k">> >>,
    << <<"T", "h", "e", " ", "G", "o", "s", "p", "e", "l", " ", "A", "c", "c", "o", "r", "d", "i", "n", "g", " ", "t", "o", " ", "S", "a", "i", "n", "t", " ", "L", "u", "k", "e">>,
       <<"L", "u", "k", "e">> >>,
    << <<"T", "h", "e", " ", "G", "o", "s", "p", "e", "l", " ", "A", "c", "c", "o", "r", "d", "i", "n", "g", " ", "t", "o", " ", "S", "a", "i", "n", "t", " ", "J", "o", "h", "n">>,
       <<"J", "o", "h", "n">> >>,
    << <<"T", "h", "e", " ", "A", "c", "t", "s", " ", "o", "f", " ", "t", "h", "e", " ", "A", "p", "o", "s", "t", "l", "e", "s">>,
       <<"A", "c", "t", "s">> >>,
    << <<"T", "h", "e", " ", "E", "p", "i", "s", "t", "l", "e", " ", "o", "f", " ", "P", "a", "u", "l", " ", "t", "h", "e", " ", "A", "p", "o", "s", "t", "l", "e", " ", "t", "o", " ", "t", "h", "e", " ", "R", "o", "m", "a", "n", "s">>,
       <<"R", "o", "m", "a", "n", "s">> >>,
    << <<"T", "h", "e", " ", "F", "i", "r", "s", "t", " ", "E", "p", "i", "s", "t", "l", "e", " ", "o", "f", " ", "P", "a", "u", "l", " ", "t", "h", "e", " ", "A", "p", "o", "s", "t", "l", "e", " ", "t", "o", " ", "t", "h", "e", " ", "C", "o", "r", "i", "n", "t", "h", "i", "a", "n", "s">>,
       <<"1", " ", "C", "o", "r", "i", "n", "t", "h", "i", "a", "n", "s">> >>,
    << <<"T", "h", "e", " ", "S", "e", "c", "o", "n", "d", " ", "E", "p", "i", "s", "t", "l", "e", " ", "o", "f", " ", "P", "a", "u", "l", " ", "t", "h", "e", " ", "A", "p", "o", "s", "t", "l", "e", " ", "t", "o", " ", "t", "h", "e", " ", "C", "o", "r", "i", "n", "t", "h", "i", "a", "n", "s">>,
       <<"2", " ", "C", "o", "r", "i", "n", "t", "h", "i", "a", "n", "s">> >>,
    << <<"T", "h", "e", " ", "E", "p", "i", "s", "t", "l", "e", " ", "o", "f", " ", "P", "a", "u", "l", " ", "t", "h", "e", " ", "A", "p", "o", "s", "t", "l", "e", " ", "t", "o", " ", "t", "h", "e", " ", "G", "a", "l", "a", "t", "i", "a", "n", "s">>,
       <<"G", "a", "l", "a", "t", "i", "a", "n", "s">> >>,
    << <<"T", "h", "e", " ", "E", "p", "i", "s", "t", "l", "e", " ", "o", "f", " ", "P", "a", "u", "l", " ", "t", "h", "e", " ", "A", "p", "o", "s", "t", "l", "e", " ", "t", "o", " ", "t", "h", "e", " ", "E", "p", "h", "e", "s", "i", "a", "n", "s">>,
       <<"E", "p", "h", "e", "s", "i", "a", "n", "s">> >>,
    << <<"T", "h", "e", " ", "E", "p", "i", "s", "t", "l", "e", " ", "o", "f", " ", "P", "a", "u", "l", " ", "t", "h", "e", " ", "A", "p", "o", "s", "t", "l", "e", " ", "t", "o", " ", "t", "h", "e", " ", "P", "h", "i", "l", "i", "p", "p", "i", "a", "n", "s">>,
       <<"P", "h", "i", "l", "i", "p", "p", "i", "a", "n", "s">> >>,
    << <<"T", "h", "e", " ", "E", "p", "i", "s", "t", "l", "e", " ", "o", "f", " ", "P", "a", "u", "l", " ", "t", "h", "e", " ", "A", "p", "o", "s", "t", "l", "e", " ", "t", "o", " ", "t", "h", "e", " ", "C", "o", "l", "o", "s", "s", "i", "a", "n", "s">>,
       <<"C", "o", "l", "o", "s", "s", "i", "a", "n", "s">> >>,
    << <<"T", "h", "e", " ", "F", "i", "r", "s", "t", " ", "E", "p", "i", "s", "t", "l", "e", " ", "o", "f", " ", "P", "a", "u", "l", " ", "t", "h", "e", " ", "A", "p", "o", "s", "t", "l", "e", " ", "t", "o", " ", "t", "h", "e", " ", "T", "h", "e", "s", "s", "a", "l", "o", "n", "i", "a", "n", "s">>,
       <<"1", " ", "T", "h", "e", "s", "s", "a", "l", "o", "n", "i", "a", "n", "s">> >>,
    << <<"T", "h", "e", " ", "S", "e", "c", "o", "n", "d", " ", "E", "p", "i", "s", "t", "l", "e", " ", "o", "f", " ", "P", "a", "u", "l", " ", "t", "h", "e", " ", "A", "p", "o", "s", "t", "l", "e", " ", "t", "o", " ", "t", "h", "e", " ", "T", "h", "e", "s", "s", "a", "l", "o", "n", "i", "a", "n", "s">>,
       <<"2", " ", "T", "h", "e", "s", "s", "a", "l", "o", "n", "i", "a", "n", "s">> >>,
    << <<"T", "h", "e", " ", "F", "i", "r", "s", "t", " ", "E", "p", "i", "s", "t", "l", "e", " ", "o", "f", " ", "P", "a", "u", "l", " ", "t", "h", "e", " ", "A", "p", "o", "s", "t", "l", "e", " ", "t", "o", " ", "T", "i", "m", "o", "t", "h", "y">>,
       <<"1", " ", "T", "i", "m", "o", "t", "h", "y">> >>,
    << <<"T", "h", "e", " ", "S", "e", "c", "o", "n", "d", " ", "E", "p", "i", "s", "t", "l", "e", " ", "o", "f", " ", "P", "a", "u", "l", " ", "t", "h", "e", " ", "A", "p", "o", "s", "t", "l", "e", " ", "t", "o", " ", "T", "i", "m", "o", "t", "h", "y">>,
       <<"2", " ", "T", "i", "m", "o", "t", "h", "y">> >>,
    << <<"T", "h", "e", " ", "E", "p", "i", "s", "t", "l", "e", " ", "o", "f", " ", "P", "a", "u", "l", " ", "t", "h", "e", " ", "A", "p", "o", "s", "t", "l", "e", " ", "t", "o", " ", "T", "i", "t", "u", "s">>,
       <<"T", "i", "t", "u", "s">> >>,
    << <<"T", "h", "e", " ", "E", "p", "i", "s", "t", "l", "e", " ", "o", "f", " ", "P", "a", "u", "l", " ", "t", "h", "e", " ", "A", "p", "o", "s", "t", "l", "e", " ", "t", "o", " ", "P", "h", "i", "l", "e", "m", "o", "n">>,
       <<"P", "h", "i", "l", "e", "m", "o", "n">> >>,
    << <<"T", "h", "e", " ", "E", "p", "i", "s", "t", "l", "e", " ", "o", "f", " ", "P", "a", "u", "l", " ", "t", "h", "e", " ", "A", "p", "o", "s", "t", "l", "e", " ", "t", "o", " ", "t", "h", "e", " ", "H", "e", "b", "r", "e", "w", "s">>,
       <<"H", "e", "b", "r", "e", "w", "s">> >>,
    << <<"T", "h", "e", " ", "G", "e", "n", "e", "r", "a", "l", " ", "E", "p", "i", "s", "t", "l", "e", " ", "o", "f", " ", "J", "a", "m", "e", "s">>,
       <<"J", "a", "m", "e", "s">> >>,
    << <<"T", "h", "e", " ", "F", "i", "r", "s", "t", " ", "E", "p", "i", "s", "t", "l", "e", " ", "G", "e", "n", "e", "r", "a", "l", " ", "o", "f", " ", "P", "e", "t", "e", "r">>,
       <<"1", " ", "P", "e", "t", "e", "r">> >>,
    << <<"T", "h", "e", " ", "S", "e", "c", "o", "n", "d", " ", "G", "e", "n", "e", "r", "a", "l", " ", "E", "p", "i", "s", "t", "l", "e", " ", "o", "f", " ", "P", "e", "t", "e", "r">>,
       <<"2", " ", "P", "e", "t", "e", "r">> >>,
    << <<"T", "h", "e", " ", "F", "i", "r", "s", "t", " ", "E", "p", "i", "s", "t", "l", "e", " ", "G", "e", "n", "e", "r", "a", "l", " ", "o", "f", " ", "J", "o", "h", "n">>,
       <<"1", " ", "J", "o", "h", "n">> >>,
    << <<"T", "h", "e", " ", "S", "e", "c", "o", "n", "d", " ", "E", "p", "i", "s", "t", "l", "e", " ", "G", "e", "n", "e", "r", "a", "l", " ", "o", "f", " ", "J", "o", "h", "n">>,
       <<"2", " ", "J", "o", "h", "n">> >>,
    << <<"T", "h", "e", " ", "T", "h", "i", "r", "d", " ", "E", "p", "i", "s", "t", "l", "e", " ", "G", "e", "n", "e", "r", "a", "l", " ", "o", "f", " ", "J", "o", "h", "n">>,
       <<"3", " ", "J", "o", "h", "n">> >>,
    << <<"T", "h", "e", " ", "G", "e", "n", "e", "r", "a", "l", " ", "E", "p", "i", "s", "t", "l", "e", " ", "o", "f", " ", "J", "u", "d", "e">>,
       <<"J", "u", "d", "e">> >>,
    << <<"T", "h", "e", " ", "R", "e", "v", "e", "l", "a", "t", "i", "o", "n", " ", "o", "f", " ", "S", "a", "i", "n", "t", " ", "J", "o", "h", "n", " ", "t", "h", "e", " ", "D", "i", "v", "i", "n", "e">>,
       <<"R", "e", "v", "e", "l", "a", "t", "i", "o", "n">> >>
>>

\* USFM book codes in canonical order
book_order == <<
    <<"G", "E", "N">>, <<"E", "X", "O">>, <<"L", "E", "V">>, <<"N", "U", "M">>,
    <<"D", "E", "U">>, <<"J", "O", "S">>, <<"J", "D", "G">>, <<"R", "U", "T">>,
    <<"1", "S", "A">>, <<"2", "S", "A">>, <<"1", "K", "I">>, <<"2", "K", "I">>,
    <<"1", "C", "H">>, <<"2", "C", "H">>, <<"E", "Z", "R">>, <<"N", "E", "H">>,
    <<"E", "S", "T">>, <<"J", "O", "B">>, <<"P", "S", "A">>, <<"P", "R", "O">>,
    <<"E", "C", "C">>, <<"S", "N", "G">>, <<"I", "S", "A">>, <<"J", "E", "R">>,
    <<"L", "A", "M">>, <<"E", "Z", "K">>, <<"D", "A", "N">>, <<"H", "O", "S">>,
    <<"J", "O", "L">>, <<"A", "M", "O">>, <<"O", "B", "A">>, <<"J", "O", "N">>,
    <<"M", "I", "C">>, <<"N", "A", "M">>, <<"H", "A", "B">>, <<"Z", "E", "P">>,
    <<"H", "A", "G">>, <<"Z", "E", "C">>, <<"M", "A", "L">>, <<"M", "A", "T">>,
    <<"M", "R", "K">>, <<"L", "U", "K">>, <<"J", "H", "N">>, <<"A", "C", "T">>,
    <<"R", "O", "M">>, <<"1", "C", "O">>, <<"2", "C", "O">>, <<"G", "A", "L">>,
    <<"E", "P", "H">>, <<"P", "H", "P">>, <<"C", "O", "L">>, <<"1", "T", "H">>,
    <<"2", "T", "H">>, <<"1", "T", "I">>, <<"2", "T", "I">>, <<"T", "I", "T">>,
    <<"P", "H", "M">>, <<"H", "E", "B">>, <<"J", "A", "S">>, <<"1", "P", "E">>,
    <<"2", "P", "E">>, <<"1", "J", "N">>, <<"2", "J", "N">>, <<"3", "J", "N">>,
    <<"J", "U", "D">>, <<"R", "E", "V">>
>>

\* USFM book code -> canonical book name, in the order of the source
book_names == <<
    << <<"G", "E", "N">>, <<"G", "e", "n", "e", "s", "i", "s">> >>,
    << <<"E", "X", "O">>, <<"E", "x", "o", "d", "u", "s">> >>,
    << <<"L", "E", "V">>, <<"L", "e", "v", "i", "t", "i", "c", "u", "s">> >>,
    << <<"N", "U", "M">>, <<"N", "u", "m", "b", "e", "r", "s">> >>,
    << <<"D", "E", "U">>, <<"D", "e", "u", "t", "e", "r", "o", "n", "o", "m", "y">> >>,
    << <<"J", "O", "S">>, <<"J", "o", "s", "h", "u", "a">> >>,
    << <<"J", "D", "G">>, <<"J", "u", "d", "g", "e", "s">> >>,
    << <<"R", "U", "T">>, <<"R", "u", "t", "h">> >>,
    << <<"1", "S", "A">>, <<"1", " ", "S", "a", "m", "u", "e", "l">> >>,
    << <<"2", "S", "A">>, <<"2", " ", "S", "a", "m", "u", "e", "l">> >>,
    << <<"1", "K", "I">>, <<"1", " ", "K", "i", "n", "g", "s">> >>,
    << <<"2", "K", "I">>, <<"2", " ", "K", "i", "n", "g", "s">> >>,
    << <<"1", "C", "H">>, <<"1", " ", "C", "h", "r", "o", "n", "i", "c", "l", "e", "s">> >>,
    << <<"2", "C", "H">>, <<"2", " ", "C", "h", "r", "o", "n", "i", "c", "l", "e", "s">> >>,
    << <<"E", "Z", "R">>, <<"E", "z", "r", "a">> >>,
    << <<"N", "E", "H">>, <<"N", "e", "h", "e", "m", "i", "a", "h">> >>,
    << <<"E", "S", "T">>, <<"E", "s", "t", "h", "e", "r">> >>,
    << <<"J", "O", "B">>, <<"J", "o", "b">> >>,
    << <<"P", "S", "A">>, <<"P", "s", "a", "l", "m", "s">> >>,
    << <<"P", "R", "O">>, <<"P", "r", "o", "v", "e", "r", "b", "s">> >>,
    << <<"E", "C", "C">>, <<"E", "c", "c", "l", "e", "s", "i", "a", "s", "t", "e", "s">> >>,
    << <<"S", "N", "G">>, <<"S", "o", "n", "g", " ", "o", "f", " ", "S", "o", "l", "o", "m", "o", "n">> >>,
    << <<"I", "S", "A">>, <<"I", "s", "a", "i", "a", "h">> >>,
    << <<"J", "E", "R">>, <<"J", "e", "r", "e", "m", "i", "a", "h">> >>,
    << <<"L", "A", "M">>, <<"L", "a", "m", "e", "n", "t", "a", "t", "i", "o", "n", "s">> >>,
    << <<"E", "Z", "K">>, <<"E", "z", "e", "k", "i", "e", "l">> >>,
    << <<"D", "A", "N">>, <<"D", "a", "n", "i", "e", "l">> >>,
    << <<"H", "O", "S">>, <<"H", "o", "s", "e", "a">> >>,
    << <<"J", "O", "L">>, <<"J", "o", "e", "l">> >>,
    << <<"A", "M", "O">>, <<"A", "m", "o", "s">> >>,
    << <<"O", "B", "A">>, <<"O", "b", "a", "d", "i", "a", "h">> >>,
    << <<"J", "O", "N">>, <<"J", "o", "n", "a", "h">> >>,
    << <<"M", "I", "C">>, <<"M", "i", "c", "a", "h">> >>,
    << <<"N", "A", "M">>, <<"N", "a", "h", "u", "m">> >>,
    << <<"H", "A", "B">>, <<"H", "a", "b", "a", "k", "k", "u", "k">> >>,
    << <<"Z", "E", "P">>, <<"Z", "e", "p", "h", "a", "n", "i", "a", "h">> >>,
    << <<"H", "A", "G">>, <<"H", "a", "g", "g", "a", "i">> >>,
    << <<"Z", "E", "C">>, <<"Z", "e", "c", "h", "a", "r", "i", "a", "h">> >>,
    << <<"M", "A", "L">>, <<"M", "a", "l", "a", "c", "h", "i">> >>,
    << <<"M", "A", "T">>, <<"M", "a", "t", "t", "h", "e", "w">> >>,
    << <<"M", "R", "K">>, <<"M", "a", "r", "k">> >>,
    << <<"L", "U", "K">>, <<"L", "u", "k", "e">> >>,
    << <<"J", "H", "N">>, <<"J", "o", "h", "n">> >>,
    << <<"A", "C", "T">>, <<"A", "c", "t", "s">> >>,
    << <<"R", "O", "M">>, <<"R", "o", "m", "a", "n", "s">> >>,
    << <<"1", "C", "O">>, <<"1", " ", "C", "o", "r", "i", "n", "t", "h", "i", "a", "n", "s">> >>,
    << <<"2", "C", "O">>, <<"2", " ", "C", "o", "r", "i", "n", "t", "h", "i", "a", "n", "s">> >>,
    << <<"G", "A", "L">>, <<"G", "a", "l", "a", "t", "i", "a", "n", "s">> >>,
    << <<"E", "P", "H">>, <<"E", "p", "h", "e", "s", "i", "a", "n", "s">> >>,
    << <<"P", "H", "P">>, <<"P", "h", "i", "l", "i", "p", "p", "i", "a", "n", "s">> >>,
    << <<"C", "O", "L">>, <<"C", "o", "l", "o", "s", "s", "i", "a", "n", "s">> >>,
    << <<"1", "T", "H">>, <<"1", " ", "T", "h", "e", "s", "s", "a", "l", "o", "n", "i", "a", "n", "s">> >>,
    << <<"2", "T", "H">>, <<"2", " ", "T", "h", "e", "s", "s", "a", "l", "o", "n", "i", "a", "n", "s">> >>,
    << <<"1", "T", "I">>, <<"1", " ", "T", "i", "m", "o", "t", "h", "y">> >>,
    << <<"2", "T", "I">>, <<"2", " ", "T", "i", "m", "o", "t", "h", "y">> >>,
    << <<"T", "I", "T">>, <<"T", "i", "t", "u", "s">> >>,
    << <<"P", "H", "M">>, <<"P", "h", "i", "l", "e", "m", "o", "n">> >>,
    << <<"H", "E", "B">>, <<"H", "e", "b", "r", "e", "w", "s">> >>,
    << <<"J", "A", "S">>, <<"J", "a", "m", "e", "s">> >>,
    << <<"1", "P", "E">>, <<"1", " ", "P", "e", "t", "e", "r">> >>,
    << <<"2", "P", "E">>, <<"2", " ", "P", "e", "t", "e", "r">> >>,
    << <<"1", "J", "N">>, <<"1", " ", "J", "o", "h", "n">> >>,
    << <<"2", "J", "N">>, <<"2", " ", "J", "o", "h", "n">> >>,
    << <<"3", "J", "N">>, <<"3", " ", "J", "o", "h", "n">> >>,
    << <<"J", "U", "D">>, <<"J", "u", "d", "e">> >>,
    << <<"R", "E", "V">>, <<"R", "e", "v", "e", "l", "a", "t", "i", "o", "n">> >>
>>

\* ------------------------------------------------------------------------
\* Canonical output lines; write_verses (the same in both Gutenberg scripts)
\* ------------------------------------------------------------------------

\* Python's None where the code holds a number or None
NoneInt == -1

\* Python's None where the code holds a book name or None
NoBook == <<"None">>

\* f"Chapter {n}"
ChapterHeader(n) == <<"C", "h", "a", "p", "t", "e", "r", " ">> \o IntToStr(n)

\* f"{verse} {text}"
VerseLine(v, t) == IntToStr(v) \o <<" ">> \o t

\* a write_verses that writes a header before every verse
ChapterBreakEveryVerse(ch, cur) ==
    (IF cur # NoneInt THEN << <<>> >> ELSE <<>>) \o <<ChapterHeader(ch)>>

\* the header lines written before a verse of chapter ch when the chapter
\* of the verse before it was cur (None before the first verse)
ChapterBreak(ch, cur) ==
    IF ch # cur
    THEN (IF cur # NoneInt THEN << <<>> >> ELSE <<>>) \o <<ChapterHeader(ch)>>
    ELSE <<>>

RECURSIVE write_verses_loop(_, _, _, _)
\* the for loop of write_verses from verse k on
write_verses_loop(vs, k, cur, out) ==
    IF k > Len(vs) THEN out
    ELSE write_verses_loop(vs, k + 1, vs[k].chapter,
             out \o ChapterBreak(vs[k].chapter, cur)
                 \o <<VerseLine(vs[k].verse, NormWs(vs[k].text))>>)

\* write_verses(verses, output_lines): output_lines after the call
write_verses(vs, out) ==
    IF vs = <<>> THEN out ELSE write_verses_loop(vs, 1, NoneInt, out)

\* ------------------------------------------------------------------------
\* Gutenberg plaintext: what both converters share
\* ------------------------------------------------------------------------

\* line_stripped in book_mapping
IsBookTitle(ls) == \E i \in 1..Len(book_mapping) : book_mapping[i][1] = ls

\* book_mapping[line_stripped]
BookOfTitle(ls) ==
    book_mapping[CHOOSE i \in 1..Len(book_mapping) : book_mapping[i][1] = ls][2]

\* r'(\d+):(\d+)'
verse_ref_pattern ==
    ReSeq(<<ReGrp(1, RePlus(ReSet(Digit))), ReSet({":"}),
            ReGrp(2, RePlus(ReSet(Digit)))>>)

\* a converter that keeps a verse whatever its text
AppendVerseAlways(vs, ch, v, parts) ==
    Append(vs, [chapter |-> ch, verse |-> v, text |-> Strip(Join(parts))])

\* verse_text = ' '.join(current_text).strip()
\* if verse_text: verses.append({chapter, verse, text})
AppendVerse(vs, ch, v, parts) ==
    LET verse_text == Strip(Join(parts))
    IN IF verse_text # <<>>
       THEN Append(vs, [chapter |-> ch, verse |-> v, text |-> verse_text])
       ELSE vs

\* the same under "if current_verse is not None"
FlushVerse(vs, ch, v, parts) ==
    IF v # NoneInt THEN AppendVerse(vs, ch, v, parts) ELSE vs

\* [t] if t else []
OneIfText(t) == IF t # <<>> THEN <<t>> ELSE <<>>

StartMarker == <<"*", "*", "*", " ", "S", "T", "A", "R", "T">>
EndMarker == <<"*", "*", "*", " ", "E", "N", "D">>
OldTestament == <<"T", "h", "e", " ", "O", "l", "d", " ", "T", "e", "s", "t", "a", "m", "e", "n", "t">>
NewTestament == <<"T", "h", "e", " ", "N", "e", "w", " ", "T", "e", "s", "t", "a", "m", "e", "n", "t">>

\* ------------------------------------------------------------------------
\* scripts/convert_kjv.py
\* ------------------------------------------------------------------------
\* The converter's locals are the record
\*   [output_lines, skip_mode, current_book, verses, current_text,
\*    current_chapter, current_verse].

\* line_stripped[match.end() : next.start()], or to the end of the line
\* after the last match, stripped
KjvTextAfter(ls, ms, j) ==
    IF j < Len(ms)
    THEN Strip(SubSeq(ls, ms[j].e, ms[j + 1].b - 1))
    ELSE Strip(SubSeq(ls, ms[j].e, Len(ls)))

\* the j = 0 branch of the loop over the matches of a line
KjvFirstMatch(ls, ms, L) ==
    [L EXCEPT !.verses = FlushVerse(L.verses, L.current_chapter, L.current_verse, L.current_text),
              !.current_chapter = StrToInt(Group(ls, ms[1], 1)),
              !.current_verse = StrToInt(Group(ls, ms[1], 2)),
              !.current_text = OneIfText(KjvTextAfter(ls, ms, 1))]

\* the else branch (j >= 1; j counts from 1 here, so j >= 2)
KjvLaterMatch(ls, ms, j, L) ==
    LET text_before == Strip(SubSeq(ls, ms[j - 1].e, ms[j].b - 1))
        ct1 == IF text_before # <<>> THEN Append(L.current_text, text_before) ELSE L.current_text
    IN [L EXCEPT !.verses = FlushVerse(L.verses, L.current_chapter, L.current_verse, ct1),
                 !.current_chapter = StrToInt(Group(ls, ms[j], 1)),
                 !.current_verse = StrToInt(Group(ls, ms[j], 2)),
                 !.current_text = OneIfText(KjvTextAfter(ls, ms, j))]

RECURSIVE KjvMatches(_, _, _, _)
\* for j, match in enumerate(matches)
KjvMatches(ls, ms, j, L) ==
    IF j > Len(ms) THEN L
    ELSE KjvMatches(ls, ms, j + 1,
             IF j = 1 THEN KjvFirstMatch(ls, ms, L)
             ELSE KjvLaterMatch(ls, ms, j, L))

\* the line_stripped in book_mapping branch of convert_kjv
KjvBookTitle(ls, L) ==
    LET out1 == IF L.verses # <<>> THEN write_verses(L.verses, L.output_lines) ELSE L.output_lines
        out2 == IF L.current_book # NoBook THEN Append(out1, <<>>) ELSE out1
    IN [L EXCEPT !.output_lines = Append(out2, BookOfTitle(ls)),
                 !.verses = <<>>,
                 !.current_book = BookOfTitle(ls),
                 !.current_text = <<>>, !.current_chapter = NoneInt, !.current_verse = NoneInt]

\* skip_mode after the "if skip_mode:" block of one iteration
KjvSkipMode(ls, skip) ==
    IF ~skip THEN FALSE
    ELSE IF Contains(ls, OldTestament) \/ Contains(ls, NewTestament) THEN TRUE
    ELSE ~(\E i \in 1..Len(book_mapping) : Contains(ls, book_mapping[i][1]))

\* one iteration of the for loop of convert_kjv
KjvIter(line, L) ==
    LET ls == Strip(line)
        skip1 == KjvSkipMode(ls, L.skip_mode)
        L1 == [L EXCEPT !.skip_mode = skip1]
        ms == ReFindIter(verse_ref_pattern, ls, 1)
    IN IF Contains(ls, StartMarker) \/ Contains(ls, EndMarker) THEN L
       ELSE IF skip1 THEN L1
       ELSE IF IsBookTitle(ls) THEN KjvBookTitle(ls, L1)
       ELSE IF ls = <<>>
            THEN (IF L1.current_text # <<>> THEN [L1 EXCEPT !.current_text = Append(@, <<>>)] ELSE L1)
       ELSE IF ms = <<>>
            THEN (IF L1.current_text # <<>> THEN [L1 EXCEPT !.current_text = Append(@, ls)] ELSE L1)
       ELSE KjvMatches(ls, ms, 1, L1)

\* the code after the loop: the last verse, then write_verses
KjvEnd(L) ==
    LET vs1 == FlushVerse(L.verses, L.current_chapter, L.current_verse, L.current_text)
    IN [L EXCEPT !.verses = vs1,
                 !.output_lines = IF vs1 # <<>> THEN write_verses(vs1, L.output_lines) ELSE L.output_lines]

\* ------------------------------------------------------------------------
\* scripts/convert_to_kjv_format.py
\* ------------------------------------------------------------------------
\* The locals are the record [output_lines, current_book, verses,
\* current_text, current_chapter, current_verse, genesis_count,
\* content_started].

GenesisTitle == book_mapping[1][1]

\* the line_stripped in book_mapping branch
GutBookTitle(ls, L) ==
    LET vs1 == FlushVerse(L.verses, L.current_chapter, L.current_verse, L.current_text)
        out1 == IF vs1 # <<>> THEN write_verses(vs1, L.output_lines) ELSE L.output_lines
        out2 == IF L.current_book # NoBook THEN Append(out1, <<>>) ELSE out1
    IN [L EXCEPT !.output_lines = Append(out2, BookOfTitle(ls)),
                 !.verses = <<>>,
                 !.current_book = BookOfTitle(ls),
                 !.current_text = <<>>, !.current_chapter = NoneInt, !.current_verse = NoneInt]

\* the "if match:" branch: re.search finds the first reference of the line
GutVerseRef(ls, m, L) ==
    [L EXCEPT !.verses = FlushVerse(L.verses, L.current_chapter, L.current_verse, L.current_text),
              !.current_chapter = StrToInt(Group(ls, m, 1)),
              !.current_verse = StrToInt(Group(ls, m, 2)),
              !.current_text = OneIfText(Strip(SubSeq(ls, m.e, Len(ls))))]

\* one iteration of the for loop of convert_gutenberg_to_kjv_format
GutIter(line, L) ==
    LET ls == Strip(line)
        m == ReSearch(verse_ref_pattern, ls)
    IN IF Contains(ls, StartMarker) \/ Contains(ls, EndMarker) THEN L
       ELSE IF Contains(ls, GenesisTitle)
            THEN [L EXCEPT !.genesis_count = @ + 1,
                           !.content_started = IF L.genesis_count + 1 = 2 THEN TRUE ELSE @]
       ELSE IF ~L.content_started THEN L
       ELSE IF IsBookTitle(ls) THEN GutBookTitle(ls, L)
       ELSE IF ls = <<>>
            THEN (IF L.current_text # <<>> THEN [L EXCEPT !.current_text = Append(@, <<>>)] ELSE L)
       ELSE IF m # <<>> THEN GutVerseRef(ls, m[1], L)
       ELSE IF L.current_verse # NoneInt THEN [L EXCEPT !.current_text = Append(@, ls)]
       ELSE L

\* the code after the loop
GutEnd(L) ==
    LET vs1 == FlushVerse(L.verses, L.current_chapter, L.current_verse, L.current_text)
    IN [L EXCEPT !.verses = vs1,
                 !.output_lines = IF vs1 # <<>> THEN write_verses(vs1, L.output_lines) ELSE L.output_lines]

\* ------------------------------------------------------------------------
\* scripts/convert_usfm_to_kjv_format.py: clean_usfm_text
\* ------------------------------------------------------------------------

\* the range [א-ת֑-״]: the Hebrew letters and, for the points and accents,
\* the point sheva
HebrewRange == Hebrew \cup {"U05B0"}

ReWs == ReSet(Space)
ReNotBsl == ReNot({BSL})
ReNotDot == ReNot({"."})
AlphaNum == Digit \cup LowerAZ \cup UpperAZ

\* the inner function replace_word of clean_usfm_text, on match.group(0)
replace_word(word_group) ==
    LET bars == {i \in 1..Len(word_group) : word_group[i] = "|"}
        first == CHOOSE i \in bars : \A j \in bars : i <= j
        unmarked == ReSeq(<<ReLit(<<BSL, "w">>), ReStar(ReWs)>>)
        closing == ReLit(<<BSL, "w", "*">>)
    IN (IF bars # {}
        THEN Strip(StrReplace(SubSeq(word_group, 1, first - 1), <<BSL, "w">>))
        ELSE Strip(ReSubLit(closing, <<>>, ReSubLit(unmarked, <<>>, word_group))))
       \o <<" ">>

\* what re.sub puts in the place of match m of text s: kind "del" is '',
\* "sp" is ' ', "g1" is r'\1', "word" is the function replace_word
Replacement(kind, s, m) ==
    CASE kind = "del" -> <<>>
      [] kind = "sp" -> <<" ">>
      [] kind = "g1" -> Group(s, m, 1)
      [] kind = "word" -> replace_word(Group0(s, m))

RECURSIVE ReSubFrom(_, _, _, _), ReSubAt(_, _, _, _, _)
\* re.sub(r, replacement, s) from position i on
ReSubFrom(r, kind, s, i) == ReSubAt(r, kind, s, i, ReSearchFrom(r, s, i))

\* ... m being the search result from position i
ReSubAt(r, kind, s, i, m) ==
    IF m = <<>> THEN SubSeq(s, i, Len(s))
    ELSE SubSeq(s, i, m[1].b - 1) \o Replacement(kind, s, m[1])
         \o (IF m[1].e > m[1].b THEN ReSubFrom(r, kind, s, m[1].e)
             ELSE SubSeq(s, m[1].b, m[1].b) \o ReSubFrom(r, kind, s, m[1].b + 1))

\* re.sub(r, replacement, s)
ReSub(r, kind, s) == ReSubFrom(r, kind, s, 1)

\* line 45: \\f\s+[^\\]*?\\fr\s+[^\\]*?\\ft\s+[^\\]*?\\f\*
ReFootnoteFull ==
    ReSeq(<<ReLit(<<BSL, "f">>), RePlus(ReWs), ReStarLazy(ReNotBsl),
            ReLit(<<BSL, "f", "r">>), RePlus(ReWs), ReStarLazy(ReNotBsl),
            ReLit(<<BSL, "f", "t">>), RePlus(ReWs), ReStarLazy(ReNotBsl),
            ReLit(<<BSL, "f", "*">>)>>)

\* line 47: \\f[^\\]*?\\f\*
ReFootnoteSimple ==
    ReSeq(<<ReLit(<<BSL, "f">>), ReStarLazy(ReNotBsl), ReLit(<<BSL, "f", "*">>)>>)

\* line 50: \s+\d+:\d+\s+[^\\]*?(?=\\|\s+[a-z]|$) with re.IGNORECASE
ReFootnoteRef ==
    ReSeq(<<RePlus(ReWs), RePlus(ReSet(Digit)), ReSet({":"}), RePlus(ReSet(Digit)),
            RePlus(ReWs), ReStarLazy(ReNotBsl),
            ReLook(ReAlt(<<ReSet({BSL}),
                           ReSeq(<<RePlus(ReWs), ReSet(LowerAZ \cup UpperAZ)>>),
                           <<"eos">>>>))>>)

\* line 51: \+\s*\d+:\d+\s+[^.]*\.
RePlusRef ==
    ReSeq(<<ReSet({"+"}), ReStar(ReWs), RePlus(ReSet(Digit)), ReSet({":"}),
            RePlus(ReSet(Digit)), RePlus(ReWs), ReStar(ReNotDot), ReSet({"."})>>)

\* line 52: \+[^\\]*
RePlusRest == ReSeq(<<ReSet({"+"}), ReStar(ReNotBsl)>>)

\* line 53: \\+
ReBackslashes == RePlus(ReSet({BSL}))

\* line 55: \s+The\s+[A-Z][^.]*?rendered[^.]*?is[^.]*?"[^"]*"[^.]*?\.
ReRendered ==
    ReSeq(<<RePlus(ReWs), ReLit(<<"T", "h", "e">>), RePlus(ReWs), ReSet(UpperAZ),
            ReStarLazy(ReNotDot), ReLit(<<"r", "e", "n", "d", "e", "r", "e", "d">>),
            ReStarLazy(ReNotDot), ReLit(<<"i", "s">>), ReStarLazy(ReNotDot),
            ReSet({DQ}), ReStar(ReNot({DQ})), ReSet({DQ}),
            ReStarLazy(ReNotDot), ReSet({"."})>>)

\* line 74: \\w\s+[^\\]*?\\w\*
ReWordMarker ==
    ReSeq(<<ReLit(<<BSL, "w">>), RePlus(ReWs), ReStarLazy(ReNotBsl),
            ReLit(<<BSL, "w", "*">>)>>)

\* line 77: \\strong="[^"]*"
ReStrong ==
    ReSeq(<<ReLit(<<BSL, "s", "t", "r", "o", "n", "g", "=", DQ>>),
            ReStar(ReNot({DQ})), ReSet({DQ})>>)

\* line 80: \+wh[^+]*\+wh\*
RePlusWh ==
    ReSeq(<<ReLit(<<"+", "w", "h">>), ReStar(ReNot({"+"})),
            ReLit(<<"+", "w", "h", "*">>)>>)

\* line 81: \+[^+]*\+
RePlusPair == ReSeq(<<ReSet({"+"}), ReStar(ReNot({"+"})), ReSet({"+"})>>)

\* line 84: [א-ת֑-״]+
ReHebrew == RePlus(ReSet(HebrewRange))

\* line 87: \\[A-Za-z0-9*]+\s*
ReControl ==
    ReSeq(<<ReSet({BSL}), RePlus(ReSet(AlphaNum \cup {"*"})), ReStar(ReWs)>>)

BMSQ == {"b", "m", "s", "q"}

\* line 91: \b[bmsq]\s+[bmsq]\b
ReMarkerPair ==
    ReSeq(<< <<"wb">>, ReSet(BMSQ), RePlus(ReWs), ReSet(BMSQ), <<"wb">> >>)

\* line 92: \b[bmsq]\d*\b
ReMarker == ReSeq(<< <<"wb">>, ReSet(BMSQ), ReStar(ReSet(Digit)), <<"wb">> >>)

\* line 93: \bli\d+\b
ReListMarker ==
    ReSeq(<< <<"wb">>, ReLit(<<"l", "i">>), RePlus(ReSet(Digit)), <<"wb">> >>)

\* line 94: \bpmo\b
RePmo == ReSeq(<< <<"wb">>, ReLit(<<"p", "m", "o">>), <<"wb">> >>)

\* line 95: \bp\b
ReP == ReSeq(<< <<"wb">>, ReLit(<<"p">>), <<"wb">> >>)

\* line 98: \s+The\s+(First|Second|...|Tenth)\s+Day\s* with re.IGNORECASE
ReDayHeading ==
    ReSeq(<<RePlus(ReWs), ReLitI(<<"t", "h", "e">>), RePlus(ReWs),
            ReGrp(1, ReAlt(<<ReLitI(<<"f", "i", "r", "s", "t">>),
                             ReLitI(<<"s", "e", "c", "o", "n", "d">>),
                             ReLitI(<<"t", "h", "i", "r", "d">>),
                             ReLitI(<<"f", "o", "u", "r", "t", "h">>),
                             ReLitI(<<"f", "i", "f", "t", "h">>),
                             ReLitI(<<"s", "i", "x", "t", "h">>),
                             ReLitI(<<"s", "e", "v", "e", "n", "t", "h">>),
                             ReLitI(<<"e", "i", "g", "h", "t", "h">>),
                             ReLitI(<<"n", "i", "n", "t", "h">>),
                             ReLitI(<<"t", "e", "n", "t", "h">>)>>)),
            RePlus(ReWs), ReLitI(<<"d", "a", "y">>), ReStar(ReWs)>>)

\* lines 101 and 103: \s+
ReSpaces == RePlus(ReWs)

\* line 102: \s+([,.;:!?])
ReSpacePunct ==
    ReSeq(<<RePlus(ReWs), ReGrp(1, ReSet({",", ".", ";", ":", "!", "?"}))>>)

\* lines 45-55: footnotes and their remnants; every backslash goes at line 53
CleanFootnotes ==
    << <<ReFootnoteFull, "del">>, <<ReFootnoteSimple, "del">>,
       <<ReFootnoteRef, "del">>, <<RePlusRef, "del">>, <<RePlusRest, "del">>,
       <<ReBackslashes, "del">>, <<ReRendered, "del">> >>

\* lines 74-87: word markers, attributes, Hebrew, control sequences
CleanMarkers ==
    << <<ReWordMarker, "word">>, <<ReStrong, "del">>, <<RePlusWh, "del">>,
       <<RePlusPair, "del">>, <<ReHebrew, "del">>, <<ReControl, "del">> >>

\* lines 91-98: marker remnants standing as words, day headings
CleanRemnants ==
    << <<ReMarkerPair, "del">>, <<ReMarker, "del">>, <<ReListMarker, "del">>,
       <<RePmo, "del">>, <<ReP, "del">>, <<ReDayHeading, "del">> >>

\* lines 101-103: whitespace and the space before punctuation
CleanWhitespace ==
    << <<ReSpaces, "sp">>, <<ReSpacePunct, "g1">>, <<ReSpaces, "sp">> >>

RECURSIVE ReSubAll(_, _)
\* text = re.sub(...) for each rule in turn: a text is computed in full
\* before the next rule reads it
ReSubAll(rules, text) ==
    IF rules = <<>> \/ Len(text) < 0 THEN text
    ELSE ReSubAll(Tail(rules), ReSub(Head(rules)[1], Head(rules)[2], text))

\* lines 107-108: quotes that wrap the whole text
Unquote(text) ==
    IF /\ StartsWith(text, <<DQ>>) /\ EndsWith(text, <<DQ>>)
       /\ Cardinality({i \in 1..Len(text) : text[i] = DQ}) >= 2
    THEN Strip(SubSeq(text, 2, Len(text) - 1))
    ELSE text

\* clean_usfm_text(text)
clean_usfm_text(text) ==
    Unquote(Strip(ReSubAll(CleanWhitespace, ReSubAll(CleanRemnants,
        ReSubAll(CleanMarkers, ReSubAll(CleanFootnotes, text))))))

\* ------------------------------------------------------------------------
\* scripts/convert_usfm_to_kjv_format.py: parse_usfm_file
\* ------------------------------------------------------------------------

\* line 115: \\x\s+[^\\]*?\\x\*
ReCrossRef ==
    ReSeq(<<ReLit(<<BSL, "x">>), RePlus(ReWs), ReStarLazy(ReNotBsl),
            ReLit(<<BSL, "x", "*">>)>>)

\* preprocess_usfm_line(line)
preprocess_usfm_line(line) ==
    ReSubAll(<< <<ReCrossRef, "del">>, <<ReFootnoteFull, "del">>,
                <<ReFootnoteSimple, "del">> >>, line)

\* verse_pattern: ^\\v\s+(\d+)\s+(.*)$
verse_pattern ==
    ReSeq(<< <<"bos">>, ReLit(<<BSL, "v">>), RePlus(ReWs),
             ReGrp(1, RePlus(ReSet(Digit))), RePlus(ReWs),
             ReGrp(2, ReStar(<<"any">>)), <<"eos">> >>)

\* line 173: \\c\s+(\d+)
chapter_pattern ==
    ReSeq(<<ReLit(<<BSL, "c">>), RePlus(ReWs), ReGrp(1, RePlus(ReSet(Digit)))>>)

\* the characters of file names and book codes in code point order
AsciiOrder ==
    <<"-", ".", "0", "1", "2", "3", "4", "5", "6", "7", "8", "9">>
    \o UpperSeq \o <<"_">> \o LowerSeq

CharRank(c) == CHOOSE i \in 1..Len(AsciiOrder) : AsciiOrder[i] = c

RECURSIVE StrLess(_, _)
\* a < b for Python strings
StrLess(a, b) ==
    IF b = <<>> THEN FALSE
    ELSE IF a = <<>> THEN TRUE
    ELSE IF a[1] = b[1] THEN StrLess(Tail(a), Tail(b))
    ELSE CharRank(a[1]) < CharRank(b[1])

\* sort_key(a) < sort_key(b), the key being (-len(code), is_digit, code)
SortKeyLess(a, b) ==
    LET is_digit(code) == IF code[1] \in Digit THEN 1 ELSE 0
    IN \/ -Len(a) < -Len(b)
       \/ /\ Len(a) = Len(b)
          /\ \/ is_digit(a) < is_digit(b)
             \/ is_digit(a) = is_digit(b) /\ StrLess(a, b)

\* Python's None where the code holds a book code or None
NoCode == <<>>

\* lines 125-143: the first code of sorted_codes that the upper-cased file
\* name contains, None when there is none
DetectBookCode(filename) ==
    LET fu == StrUpper(filename)
        hits == {i \in 1..Len(book_names) : Contains(fu, book_names[i][1])}
    IN IF hits = {} THEN NoCode
       ELSE book_names[CHOOSE i \in hits :
                          \A j \in hits \ {i} :
                             SortKeyLess(book_names[i][1], book_names[j][1])][1]

\* book_names[code]
BookNameOf(code) ==
    book_names[CHOOSE i \in 1..Len(book_names) : book_names[i][1] = code][2]

\* The locals of parse_usfm_file are the record [book_name, chapters,
\* current_chapter, current_verses, current_verse_num, current_verse_text];
\* the dict current_verses is the sequence of its <<number, text>> items in
\* insertion order, chapters the list of <<number, verse list>> pairs.

\* verse_num in current_verses
HasVerse(cvs, n) == \E i \in 1..Len(cvs) : cvs[i][1] = n

\* a parser that keeps current_verses as a list and appends every verse
MergeVerseAppend(cvs, n, text) == Append(cvs, <<n, text>>)

\* lines 196-199: current_verses[n] += " " + text, or current_verses[n] = text
MergeVerse(cvs, n, text) ==
    IF HasVerse(cvs, n)
    THEN [i \in 1..Len(cvs) |->
             IF cvs[i][1] = n THEN <<n, cvs[i][2] \o <<" ">> \o text>> ELSE cvs[i]]
    ELSE Append(cvs, <<n, text>>)

\* lines 191-199 (and 212-219): save the verse that was being read
SaveVerse(L) ==
    IF L.current_verse_num # NoneInt /\ L.current_verse_text # <<>>
    THEN LET verse_text == clean_usfm_text(Strip(Join(L.current_verse_text)))
         IN IF verse_text # <<>>
            THEN [L EXCEPT !.current_verses =
                               MergeVerse(@, L.current_verse_num, verse_text)]
            ELSE L
    ELSE L

RECURSIVE InsertByKey(_, _)
\* the <<key, item>> pair p put into the list ps, sorted by key, after the
\* pairs whose key is not greater
InsertByKey(ps, p) ==
    IF ps = <<>> THEN <<p>>
    ELSE IF p[1] < ps[1][1] THEN <<p>> \o ps
    ELSE <<ps[1]>> \o InsertByKey(Tail(ps), p)

RECURSIVE StableSortPairs(_)
\* Python's stable sort of <<key, item>> pairs by key
StableSortPairs(ps) ==
    IF ps = <<>> THEN <<>>
    ELSE InsertByKey(StableSortPairs(SubSeq(ps, 1, Len(ps) - 1)), ps[Len(ps)])

\* sorted(items) for <<number, text>> items, the numbers being the keys of a
\* dict: by number
SortedByNum(items) == StableSortPairs(items)

\* lines 176-179 (and 221-223): save the chapter that was being read
SaveChapter(L) ==
    IF L.current_chapter # NoneInt /\ L.current_verses # <<>>
    THEN [L EXCEPT !.chapters =
                      Append(@, <<L.current_chapter, SortedByNum(L.current_verses)>>)]
    ELSE L

\* lines 167-168: a metadata line
IsMetadata(line) ==
    \/ StartsWith(line, <<BSL, "i", "d">>) \/ StartsWith(line, <<BSL, "i", "d", "e">>)
    \/ StartsWith(line, <<BSL, "h">>) \/ StartsWith(line, <<BSL, "t", "o", "c">>)
    \/ StartsWith(line, <<BSL, "m", "t">>)

\* lines 172-185: a line that starts with \c
UsfmChapterLine(line, L) ==
    LET match == ReMatch(chapter_pattern, line)
    IN IF match # <<>>
       THEN [SaveChapter(L) EXCEPT
                !.current_chapter = StrToInt(Group(line, match[1], 1)),
                !.current_verses = <<>>,
                !.current_verse_num = NoneInt,
                !.current_verse_text = <<>>]
       ELSE L

\* lines 189-203: a line that matches verse_pattern
UsfmVerseLine(line, m, L) ==
    [SaveVerse(L) EXCEPT
        !.current_verse_num = StrToInt(Group(line, m, 1)),
        !.current_verse_text =
            IF Strip(Group(line, m, 2)) # <<>> THEN <<Group(line, m, 2)>> ELSE <<>>]

\* one iteration of the for loop of parse_usfm_file
UsfmIter(raw, L) ==
    LET line == RStrip(preprocess_usfm_line(RStrip(raw)))
        verse_match == ReMatch(verse_pattern, line)
    IN IF IsMetadata(line) THEN L
       ELSE IF StartsWith(line, <<BSL, "c">>) THEN UsfmChapterLine(line, L)
       ELSE IF verse_match # <<>> THEN UsfmVerseLine(line, verse_match[1], L)
       ELSE IF L.current_verse_num # NoneInt /\ ~StartsWith(line, <<BSL, "v">>)
            THEN [L EXCEPT !.current_verse_text = Append(@, line)]
       ELSE L

\* lines 211-223: the last verse and the last chapter
UsfmEnd(L) == SaveChapter(SaveVerse(L))

\* the locals after line 154
UsfmStart(code) ==
    [book_name |-> BookNameOf(code), chapters |-> <<>>,
     current_chapter |-> NoneInt, current_verses |-> <<>>,
     current_verse_num |-> NoneInt, current_verse_text |-> <<>>]

RECURSIVE UsfmLoop(_, _, _)
\* the for loop over the lines of the file, from line k on
UsfmLoop(lines, k, L) ==
    IF k > Len(lines) THEN L ELSE UsfmLoop(lines, k + 1, UsfmIter(lines[k], L))

\* parse_usfm_file(filepath) for a file of that name and those lines: the
\* pair (book_name, chapters)
parse_usfm_file(filename, lines) ==
    IF DetectBookCode(filename) = NoCode
    THEN [book_name |-> NoBook, chapters |-> <<>>]
    ELSE LET L == UsfmEnd(UsfmLoop(lines, 1, UsfmStart(DetectBookCode(filename))))
         IN [book_name |-> L.book_name, chapters |-> L.chapters]

\* ------------------------------------------------------------------------
\* scripts/convert_usfm_to_kjv_format.py: convert_usfm_directory
\* ------------------------------------------------------------------------

RECURSIVE SortedNames(_)
\* sorted(paths) for the files of one directory: by name
SortedNames(S) ==
    IF S = {} THEN <<>>
    ELSE LET m == CHOOSE x \in S : \A y \in S \ {x} : StrLess(x, y)
         IN <<m>> \o SortedNames(S \ {m})

\* Path(input_dir).glob("*.usfm"), "*.SFM" and "*.sfm"
GlobMatches(name) ==
    \/ EndsWith(name, <<".", "u", "s", "f", "m">>)
    \/ EndsWith(name, <<".", "S", "F", "M">>)
    \/ EndsWith(name, <<".", "s", "f", "m">>)

\* lines 244-248: get_book_code(filename)
get_book_code(filename) ==
    LET fu == StrUpper(filename)
        hits == {i \in 1..Len(book_order) : Contains(fu, book_order[i])}
    IN IF hits = {} THEN 999
       ELSE (CHOOSE i \in hits : \A j \in hits : i <= j) - 1

\* lines 228-250: the files of the directory in the order they are read
FilesInOrder(names) ==
    LET sorted == SortedNames({n \in names : GlobMatches(n)})
        kept == SelectSeq(sorted, LAMBDA n : ~StartsWith(n, <<"0", "0", "-">>))
        keyed == StableSortPairs([i \in 1..Len(kept) |->
                                     <<get_book_code(kept[i]), kept[i]>>])
    IN [i \in 1..Len(keyed) |-> keyed[i][2]]

\* lines 265-275: the warnings of one chapter, one for each verse number
\* that stands more than once in its verse list
DuplicateWarnings(book_name, chapter_num, vlist) ==
    LET nums == [i \in 1..Len(vlist) |-> vlist[i][1]]
        count(n) == Cardinality({i \in 1..Len(nums) : nums[i] = n})
        firsts == SelectSeq([i \in 1..Len(nums) |-> i],
                            LAMBDA i : \A j \in 1..(i - 1) : nums[j] # nums[i])
        dups == SelectSeq(firsts, LAMBDA i : count(nums[i]) > 1)
    IN IF Cardinality({nums[i] : i \in 1..Len(nums)}) # Len(nums)
       THEN [k \in 1..Len(dups) |->
                [book |-> book_name, chapter |-> chapter_num,
                 verse |-> nums[dups[k]], count |-> count(nums[dups[k]])]]
       ELSE <<>>

\* lines 277-280: the output lines of one chapter
ChapterLines(chapter_num, vlist) ==
    LET sorted == StableSortPairs(vlist)
    IN <<ChapterHeader(chapter_num)>>
       \o [i \in 1..Len(sorted) |-> VerseLine(sorted[i][1], sorted[i][2])]
       \o << <<>> >>

RECURSIVE DirChapters(_, _, _, _)
\* lines 263-280: the loop over the chapters of one book, from chapter k on;
\* D holds output_lines, duplicate_warnings and processed_books, the keys of
\* that dict in insertion order
DirChapters(book_name, chapters, k, D) ==
    IF k > Len(chapters) THEN D
    ELSE DirChapters(book_name, chapters, k + 1,
            [D EXCEPT
               !.duplicate_warnings =
                   @ \o DuplicateWarnings(book_name, chapters[k][1], chapters[k][2]),
               !.output_lines = @ \o ChapterLines(chapters[k][1], chapters[k][2])])

\* lines 252-280: one iteration of the loop over the files, parsed being
\* what parse_usfm_file returned for the file
DirIter(parsed, D) ==
    IF parsed.book_name = NoBook \/ parsed.chapters = <<>> THEN D
    ELSE IF \E i \in 1..Len(D.processed_books) :
                D.processed_books[i] = parsed.book_name THEN D
    ELSE DirChapters(parsed.book_name, parsed.chapters, 1,
            [D EXCEPT !.processed_books = Append(@, parsed.book_name),
                      !.output_lines = Append(@, parsed.book_name)])

\* lines 282-283: the trailing blank line is dropped
DirEnd(D) ==
    IF D.output_lines # <<>> /\ D.output_lines[Len(D.output_lines)] = <<>>
    THEN [D EXCEPT !.output_lines = SubSeq(@, 1, Len(@) - 1)]
    ELSE D

\* ------------------------------------------------------------------------
\* convert_kjv_json_to_html.py
\* ------------------------------------------------------------------------
\* A book directory is a function from the stems of its .json files to the
\* files; a file is [content |-> "ok", "malformed" (json.load raises) or
\* "nokey" (a JSON object without "verses"), writable |-> whether the .html
\* file of the same stem can be written].

\* x.stem.isdigit(), and for stems of letters and digits: int(x.stem)
\* returns
IsDigitStr(stem) == stem # <<>> /\ \A i \in 1..Len(stem) : stem[i] \in Digit

\* a get_adjacent_chapters that does not look for the next file
get_adjacent_chapters_unchecked(stems, chapter_num) ==
    << IF chapter_num > 1 /\ IntToStr(chapter_num - 1) \in stems
       THEN chapter_num - 1 ELSE NoneInt,
       chapter_num + 1 >>

\* lines 20-33: get_adjacent_chapters(book_dir, chapter_num), book_dir given
\* by the stems of its .json files; the result is <<prev, next>>
get_adjacent_chapters(stems, chapter_num) ==
    << IF chapter_num > 1 /\ IntToStr(chapter_num - 1) \in stems
       THEN chapter_num - 1 ELSE NoneInt,
       IF IntToStr(chapter_num + 1) \in stems
       THEN chapter_num + 1 ELSE NoneInt >>

\* line 89: the orders sorted(book_dir.glob("*.json"), key=...) can give:
\* by int(stem), 0 for a stem that is not a number; files of equal key stay
\* in the order glob lists them, which is any order
JsonFileOrders(stems) ==
    LET key(s) == IF IsDigitStr(s) THEN StrToInt(s) ELSE 0
    IN {q \in [1..Cardinality(stems) -> stems] :
           /\ \A s \in stems : \E i \in DOMAIN q : q[i] = s
           /\ \A i, j \in DOMAIN q : i < j => key(q[i]) <= key(q[j])}

\* lines 94-109: the try statement for one file. parse_json_file raises for
\* malformed JSON (line 95), generate_html_from_json for a missing key
\* (line 98), write_text for a file that cannot be written (line 101); the
\* handler logs the file and goes on.
ConvertJsonFile(book_name, stems, stem, chapter_num, L) ==
    IF \/ stems[stem].content = "malformed"
       \/ stems[stem].content = "nokey"
       \/ ~stems[stem].writable
    THEN [L EXCEPT !.errors = Append(@, <<book_name, stem>>)]
    ELSE [L EXCEPT
             !.html = Append(@, [book |-> book_name,
                                 chapter |-> chapter_num,
                                 prev_chapter |-> get_adjacent_chapters(DOMAIN stems, chapter_num)[1],
                                 next_chapter |-> get_adjacent_chapters(DOMAIN stems, chapter_num)[2]]),
             !.converted = @ + 1]

\* ------------------------------------------------------------------------
\* fix_incomplete_verses.py
\* ------------------------------------------------------------------------

\* lines 7-64: verse_fixes, (book, chapter, verse) -> text, in the order of the
\* source (a key that stands twice has its last text)
verse_fixes == <<
    << <<"E", "p", "h", "e", "s", "i", "a", "n", "s">>, 4, 21,
       <<"I", "f", " ", "s", "o", " ", "b", "e", " ", "t", "h", "a", "t", " ", "y", "e", " ", "h",
         "a", "v", "e", " ", "h", "e", "a", "r", "d", " ", "h", "i", "m", ",", " ", "a", "n", "d",
         " ", "h", "a", "v", "e", " ", "b", "e", "e", "n", " ", "t", "a", "u", "g", "h", "t", " ",
         "b", "y", " ", "h", "i", "m", ",", " ", "a", "s", " ", "t", "h", "e", " ", "t", "r", "u",
         "t", "h", " ", "i", "s", " ", "i", "n", " ", "J", "e", "s", "u", "s", ":">> >>,
    << <<"N", "e", "h", "e", "m", "i", "a", "h">>, 12, 4,
       <<"I", "d", "d", "o", ",", " ", "G", "i", "n", "n", "e", "t", "h", "o", ",", " ", "A", "b",
         "i", "j", "a", "h", ",">> >>,
    << <<"E", "p", "h", "e", "s", "i", "a", "n", "s">>, 4, 23,
       <<"A", "n", "d", " ", "b", "e", " ", "r", "e", "n", "e", "w", "e", "d", " ", "i", "n", " ",
         "t", "h", "e", " ", "s", "p", "i", "r", "i", "t", " ", "o", "f", " ", "y", "o", "u", "r",
         " ", "m", "i", "n", "d", ";">> >>,
    << <<"E", "p", "h", "e", "s", "i", "a", "n", "s">>, 4, 2,
       <<"W", "i", "t", "h", " ", "a", "l", "l", " ", "l", "o", "w", "l", "i", "n", "e", "s", "s",
         " ", "a", "n", "d", " ", "m", "e", "e", "k", "n", "e", "s", "s", ",", " ", "w", "i", "t",
         "h", " ", "l", "o", "n", "g", "s", "u", "f", "f", "e", "r", "i", "n", "g", ",", " ", "f",
         "o", "r", "b", "e", "a", "r", "i", "n", "g", " ", "o", "n", "e", " ", "a", "n", "o", "t",
         "h", "e", "r", " ", "i", "n", " ", "l", "o", "v", "e", ";">> >>,
    << <<"E", "p", "h", "e", "s", "i", "a", "n", "s">>, 1, 8,
       <<"W", "h", "e", "r", "e", "i", "n", " ", "h", "e", " ", "h", "a", "t", "h", " ", "a", "b",
         "o", "u", "n", "d", "e", "d", " ", "t", "o", "w", "a", "r", "d", " ", "u", "s", " ", "i",
         "n", " ", "a", "l", "l", " ", "w", "i", "s", "d", "o", "m", " ", "a", "n", "d", " ", "p",
         "r", "u", "d", "e", "n", "c", "e", ";">> >>,
    << <<"E", "p", "h", "e", "s", "i", "a", "n", "s">>, 3, 11,
       <<"A", "c", "c", "o", "r", "d", "i", "n", "g", " ", "t", "o", " ", "t", "h", "e", " ", "e",
         "t", "e", "r", "n", "a", "l", " ", "p", "u", "r", "p", "o", "s", "e", " ", "w", "h", "i",
         "c", "h", " ", "h", "e", " ", "p", "u", "r", "p", "o", "s", "e", "d", " ", "i", "n", " ",
         "C", "h", "r", "i", "s", "t", " ", "J", "e", "s", "u", "s", " ", "o", "u", "r", " ", "L",
         "o", "r", "d", ":">> >>,
    << <<"E", "p", "h", "e", "s", "i", "a", "n", "s">>, 6, 15,
       <<"A", "n", "d", " ", "y", "o", "u", "r", " ", "f", "e", "e", "t", " ", "s", "h", "o", "d",
         " ", "w", "i", "t", "h", " ", "t", "h", "e", " ", "p", "r", "e", "p", "a", "r", "a", "t",
         "i", "o", "n", " ", "o", "f", " ", "t", "h", "e", " ", "g", "o", "s", "p", "e", "l", " ",
         "o", "f", " ", "p", "e", "a", "c", "e", ";">> >>,
    << <<"E", "p", "h", "e", "s", "i", "a", "n", "s">>, 6, 7,
       <<"W", "i", "t", "h", " ", "g", "o", "o", "d", " ", "w", "i", "l", "l", " ", "d", "o", "i",
         "n", "g", " ", "s", "e", "r", "v", "i", "c", "e", ",", " ", "a", "s", " ", "t", "o", " ",
         "t", "h", "e", " ", "L", "o", "r", "d", ",", " ", "a", "n", "d", " ", "n", "o", "t", " ",
         "t", "o", " ", "m", "e", "n", ":">> >>,
    << <<"N", "e", "h", "e", "m", "i", "a", "h">>, 12, 4,
       <<"I", "d", "d", "o", ",", " ", "G", "i", "n", "n", "e", "t", "h", "o", ",", " ", "A", "b",
         "i", "j", "a", "h", ",">> >>,
    << <<"N", "e", "h", "e", "m", "i", "a", "h">>, 10, 16,
       <<"A", "d", "o", "n", "i", "j", "a", "h", ",", " ", "B", "i", "g", "v", "a", "i", ",", " ",
         "A", "d", "i", "n", ",">> >>,
    << <<"N", "e", "h", "e", "m", "i", "a", "h">>, 10, 17,
       <<"A", "t", "e", "r", ",", " ", "H", "i", "z", "k", "i", "j", "a", "h", ",", " ", "A", "z",
         "z", "u", "r", ",">> >>,
    << <<"N", "e", "h", "e", "m", "i", "a", "h">>, 10, 11,
       <<"M", "i", "c", "h", "a", ",", " ", "R", "e", "h", "o", "b", ",", " ", "H", "a", "s", "h",
         "a", "b", "i", "a", "h", ",">> >>,
    << <<"N", "e", "h", "e", "m", "i", "a", "h">>, 10, 12,
       <<"Z", "a", "c", "c", "u", "r", ",", " ", "S", "h", "e", "r", "e", "b", "i", "a", "h", ",",
         " ", "S", "h", "e", "b", "a", "n", "i", "a", "h", ",">> >>,
    << <<"N", "e", "h", "e", "m", "i", "a", "h">>, 10, 39,
       <<"A", "n", "d", " ", "w", "e", " ", "w", "i", "l", "l", " ", "n", "o", "t", " ", "f", "o",
         "r", "s", "a", "k", "e", " ", "t", "h", "e", " ", "h", "o", "u", "s", "e", " ", "o", "f",
         " ", "o", "u", "r", " ", "G", "o", "d", ".">> >>,
    << <<"N", "e", "h", "e", "m", "i", "a", "h">>, 10, 40,
       <<"M", "a", "c", "h", "n", "a", "d", "e", "b", "a", "i", ",", " ", "S", "h", "a", "s", "h",
         "a", "i", ",", " ", "S", "h", "a", "r", "a", "i", ",">> >>,
    << <<"A", "c", "t", "s">>, 16, 30,
       <<"A", "n", "d", " ", "b", "r", "o", "u", "g", "h", "t", " ", "t", "h", "e", "m", " ", "o",
         "u", "t", ",", " ", "a", "n", "d", " ", "s", "a", "i", "d", ",", " ", "S", "i", "r", "s",
         ",", " ", "w", "h", "a", "t", " ", "m", "u", "s", "t", " ", "I", " ", "d", "o", " ", "t",
         "o", " ", "b", "e", " ", "s", "a", "v", "e", "d", "?">> >>,
    << <<"A", "c", "t", "s">>, 2, 8,
       <<"A", "n", "d", " ", "h", "o", "w", " ", "h", "e", "a", "r", " ", "w", "e", " ", "e", "v",
         "e", "r", "y", " ", "m", "a", "n", " ", "i", "n", " ", "o", "u", "r", " ", "o", "w", "n",
         " ", "t", "o", "n", "g", "u", "e", ",", " ", "w", "h", "e", "r", "e", "i", "n", " ", "w",
         "e", " ", "w", "e", "r", "e", " ", "b", "o", "r", "n", "?">> >>,
    << <<"A", "c", "t", "s">>, 23, 4,
       <<"A", "n", "d", " ", "t", "h", "e", "y", " ", "t", "h", "a", "t", " ", "s", "t", "o", "o",
         "d", " ", "b", "y", " ", "s", "a", "i", "d", ",", " ", "R", "e", "v", "i", "l", "e", "s",
         "t", " ", "t", "h", "o", "u", " ", "G", "o", "d", "'", "s", " ", "h", "i", "g", "h", " ",
         "p", "r", "i", "e", "s", "t", "?">> >>,
    << <<"C", "o", "l", "o", "s", "s", "i", "a", "n", "s">>, 3, 4,
       <<"W", "h", "e", "n", " ", "C", "h", "r", "i", "s", "t", ",", " ", "w", "h", "o", " ", "i",
         "s", " ", "o", "u", "r", " ", "l", "i", "f", "e", ",", " ", "s", "h", "a", "l", "l", " ",
         "a", "p", "p", "e", "a", "r", ",", " ", "t", "h", "e", "n", " ", "s", "h", "a", "l", "l",
         " ", "y", "e", " ", "a", "l", "s", "o", " ", "a", "p", "p", "e", "a", "r", " ", "w", "i",
         "t", "h", " ", "h", "i", "m", " ", "i", "n", " ", "g", "l", "o", "r", "y", ".">> >>,
    << <<"C", "o", "l", "o", "s", "s", "i", "a", "n", "s">>, 6, 2,
       <<"T", "i", "m", "o", "t", "h", "y", " ", "m", "y", " ", "w", "o", "r", "k", "f", "e", "l",
         "l", "o", "w", ",", " ", "a", "n", "d", " ", "L", "u", "c", "i", "u", "s", ",", " ", "a",
         "n", "d", " ", "J", "a", "s", "o", "n", ",", " ", "a", "n", "d", " ", "S", "o", "s", "i",
         "p", "a", "t", "e", "r", ",", " ", "m", "y", " ", "k", "i", "n", "s", "m", "e", "n", ",",
         " ", "s", "a", "l", "u", "t", "e", " ", "y", "o", "u", ".">> >>,
    << <<"D", "e", "u", "t", "e", "r", "o", "n", "o", "m", "y">>, 1, 5,
       <<"O", "n", " ", "t", "h", "i", "s", " ", "s", "i", "d", "e", " ", "J", "o", "r", "d", "a",
         "n", ",", " ", "i", "n", " ", "t", "h", "e", " ", "l", "a", "n", "d", " ", "o", "f", " ",
         "M", "o", "a", "b", ",", " ", "b", "e", "g", "a", "n", " ", "M", "o", "s", "e", "s", " ",
         "t", "o", " ", "d", "e", "c", "l", "a", "r", "e", " ", "t", "h", "i", "s", " ", "l", "a",
         "w", ",", " ", "s", "a", "y", "i", "n", "g", ",">> >>,
    << <<"E", "c", "c", "l", "e", "s", "i", "a", "s", "t", "e", "s">>, 7, 17,
       <<"B", "e", " ", "n", "o", "t", " ", "o", "v", "e", "r", " ", "m", "u", "c", "h", " ", "w",
         "i", "c", "k", "e", "d", ",", " ", "n", "e", "i", "t", "h", "e", "r", " ", "b", "e", " ",
         "t", "h", "o", "u", " ", "f", "o", "o", "l", "i", "s", "h", ":", " ", "w", "h", "y", " ",
         "s", "h", "o", "u", "l", "d", "e", "s", "t", " ", "t", "h", "o", "u", " ", "d", "i", "e",
         " ", "b", "e", "f", "o", "r", "e", " ", "t", "h", "y", " ", "t", "i", "m", "e", "?">> >>,
    << <<"E", "s", "t", "h", "e", "r">>, 9, 8,
       <<"A", "n", "d", " ", "P", "o", "r", "a", "t", "h", "a", ",", " ", "a", "n", "d", " ", "A",
         "d", "a", "l", "i", "a", ",", " ", "a", "n", "d", " ", "A", "r", "i", "d", "a", "t", "h",
         "a", ",">> >>,
    << <<"E", "x", "o", "d", "u", "s">>, 1, 3,
       <<"I", "s", "s", "a", "c", "h", "a", "r", ",", " ", "Z", "e", "b", "u", "l", "u", "n", ",",
         " ", "a", "n", "d", " ", "B", "e", "n", "j", "a", "m", "i", "n", ",">> >>,
    << <<"E", "x", "o", "d", "u", "s">>, 35, 18,
       <<"T", "h", "e", " ", "p", "i", "n", "s", " ", "o", "f", " ", "t", "h", "e", " ", "t", "a",
         "b", "e", "r", "n", "a", "c", "l", "e", ",", " ", "a", "n", "d", " ", "t", "h", "e", " ",
         "p", "i", "n", "s", " ", "o", "f", " ", "t", "h", "e", " ", "c", "o", "u", "r", "t", ",",
         " ", "a", "n", "d", " ", "t", "h", "e", "i", "r", " ", "c", "o", "r", "d", "s", ",">> >>,
    << <<"E", "z", "e", "k", "i", "e", "l">>, 16, 2,
       <<"S", "o", "n", " ", "o", "f", " ", "m", "a", "n", ",", " ", "c", "a", "u", "s", "e", " ",
         "J", "e", "r", "u", "s", "a", "l", "e", "m", " ", "t", "o", " ", "k", "n", "o", "w", " ",
         "h", "e", "r", " ", "a", "b", "o", "m", "i", "n", "a", "t", "i", "o", "n", "s", ",">> >>,
    << <<"E", "z", "e", "k", "i", "e", "l">>, 17, 2,
       <<"S", "o", "n", " ", "o", "f", " ", "m", "a", "n", ",", " ", "p", "u", "t", " ", "f", "o",
         "r", "t", "h", " ", "a", " ", "r", "i", "d", "d", "l", "e", ",", " ", "a", "n", "d", " ",
         "s", "p", "e", "a", "k", " ", "a", " ", "p", "a", "r", "a", "b", "l", "e", " ", "u", "n",
         "t", "o", " ", "t", "h", "e", " ", "h", "o", "u", "s", "e", " ", "o", "f", " ", "I", "s",
         "r", "a", "e", "l", ";">> >>,
    << <<"E", "z", "e", "k", "i", "e", "l">>, 20, 19,
       <<"I", " ", "a", "m", " ", "t", "h", "e", " ", "L", "O", "R", "D", " ", "y", "o", "u", "r",
         " ", "G", "o", "d", ";", " ", "w", "a", "l", "k", " ", "i", "n", " ", "m", "y", " ", "s",
         "t", "a", "t", "u", "t", "e", "s", ",", " ", "a", "n", "d", " ", "k", "e", "e", "p", " ",
         "m", "y", " ", "j", "u", "d", "g", "m", "e", "n", "t", "s", ",", " ", "a", "n", "d", " ",
         "d", "o", " ", "t", "h", "e", "m", ";">> >>,
    << <<"E", "z", "e", "k", "i", "e", "l">>, 23, 2,
       <<"S", "o", "n", " ", "o", "f", " ", "m", "a", "n", ",", " ", "t", "h", "e", "r", "e", " ",
         "w", "e", "r", "e", " ", "t", "w", "o", " ", "w", "o", "m", "e", "n", ",", " ", "t", "h",
         "e", " ", "d", "a", "u", "g", "h", "t", "e", "r", "s", " ", "o", "f", " ", "o", "n", "e",
         " ", "m", "o", "t", "h", "e", "r", ":">> >>,
    << <<"E", "z", "e", "k", "i", "e", "l">>, 24, 20,
       <<"T", "h", "e", "n", " ", "I", " ", "a", "n", "s", "w", "e", "r", "e", "d", " ", "t", "h",
         "e", "m", ",", " ", "T", "h", "e", " ", "w", "o", "r", "d", " ", "o", "f", " ", "t", "h",
         "e", " ", "L", "O", "R", "D", " ", "c", "a", "m", "e", " ", "u", "n", "t", "o", " ", "m",
         "e", ",", " ", "s", "a", "y", "i", "n", "g", ",">> >>,
    << <<"E", "z", "e", "k", "i", "e", "l">>, 25, 2,
       <<"S", "o", "n", " ", "o", "f", " ", "m", "a", "n", ",", " ", "s", "e", "t", " ", "t", "h",
         "y", " ", "f", "a", "c", "e", " ", "a", "g", "a", "i", "n", "s", "t", " ", "t", "h", "e",
         " ", "A", "m", "m", "o", "n", "i", "t", "e", "s", ",", " ", "a", "n", "d", " ", "p", "r",
         "o", "p", "h", "e", "s", "y", " ", "a", "g", "a", "i", "n", "s", "t", " ", "t", "h", "e",
         "m", ";">> >>,
    << <<"E", "z", "e", "k", "i", "e", "l">>, 27, 2,
       <<"N", "o", "w", ",", " ", "t", "h", "o", "u", " ", "s", "o", "n", " ", "o", "f", " ", "m",
         "a", "n", ",", " ", "t", "a", "k", "e", " ", "u", "p", " ", "a", " ", "l", "a", "m", "e",
         "n", "t", "a", "t", "i", "o", "n", " ", "f", "o", "r", " ", "T", "y", "r", "u", "s", ";">> >>,
    << <<"E", "z", "e", "k", "i", "e", "l">>, 28, 21,
       <<"S", "o", "n", " ", "o", "f", " ", "m", "a", "n", ",", " ", "s", "e", "t", " ", "t", "h",
         "y", " ", "f", "a", "c", "e", " ", "a", "g", "a", "i", "n", "s", "t", " ", "Z", "i", "d",
         "o", "n", ",", " ", "a", "n", "d", " ", "p", "r", "o", "p", "h", "e", "s", "y", " ", "a",
         "g", "a", "i", "n", "s", "t", " ", "i", "t", ",">> >>,
    << <<"E", "z", "e", "k", "i", "e", "l">>, 34, 9,
       <<"T", "h", "e", "r", "e", "f", "o", "r", "e", ",", " ", "O", " ", "y", "e", " ", "s", "h",
         "e", "p", "h", "e", "r", "d", "s", ",", " ", "h", "e", "a", "r", " ", "t", "h", "e", " ",
         "w", "o", "r", "d", " ", "o", "f", " ", "t", "h", "e", " ", "L", "O", "R", "D", ";">> >>,
    << <<"E", "z", "e", "k", "i", "e", "l">>, 35, 2,
       <<"S", "o", "n", " ", "o", "f", " ", "m", "a", "n", ",", " ", "s", "e", "t", " ", "t", "h",
         "y", " ", "f", "a", "c", "e", " ", "a", "g", "a", "i", "n", "s", "t", " ", "m", "o", "u",
         "n", "t", " ", "S", "e", "i", "r", ",", " ", "a", "n", "d", " ", "p", "r", "o", "p", "h",
         "e", "s", "y", " ", "a", "g", "a", "i", "n", "s", "t", " ", "i", "t", ",">> >>,
    << <<"E", "z", "r", "a">>, 10, 35,
       <<"B", "e", "n", "a", "i", "a", "h", ",", " ", "B", "e", "d", "e", "i", "a", "h", ",", " ",
         "C", "h", "e", "l", "l", "u", "h", ",">> >>,
    << <<"E", "z", "r", "a">>, 10, 36,
       <<"V", "a", "n", "i", "a", "h", ",", " ", "M", "e", "r", "e", "m", "o", "t", "h", ",", " ",
         "E", "l", "i", "a", "s", "h", "i", "b", ",">> >>,
    << <<"E", "z", "r", "a">>, 10, 37,
       <<"M", "a", "t", "t", "a", "n", "i", "a", "h", ",", " ", "M", "a", "t", "t", "e", "n", "a",
         "i", ",", " ", "a", "n", "d", " ", "J", "a", "a", "s", "a", "u", ",">> >>,
    << <<"E", "z", "r", "a">>, 10, 38,
       <<"A", "n", "d", " ", "B", "a", "n", "i", ",", " ", "a", "n", "d", " ", "B", "i", "n", "n",
         "u", "i", ",", " ", "S", "h", "i", "m", "e", "i", ",">> >>,
    << <<"E", "z", "r", "a">>, 2, 45,
       <<"T", "h", "e", " ", "c", "h", "i", "l", "d", "r", "e", "n", " ", "o", "f", " ", "L", "e",
         "b", "a", "n", "a", "h", ",", " ", "t", "h", "e", " ", "c", "h", "i", "l", "d", "r", "e",
         "n", " ", "o", "f", " ", "H", "a", "g", "a", "b", "a", "h", ",", " ", "t", "h", "e", " ",
         "c", "h", "i", "l", "d", "r", "e", "n", " ", "o", "f", " ", "A", "k", "k", "u", "b", ",">> >>,
    << <<"E", "z", "r", "a">>, 2, 46,
       <<"T", "h", "e", " ", "c", "h", "i", "l", "d", "r", "e", "n", " ", "o", "f", " ", "H", "a",
         "g", "a", "b", ",", " ", "t", "h", "e", " ", "c", "h", "i", "l", "d", "r", "e", "n", " ",
         "o", "f", " ", "S", "h", "a", "l", "m", "a", "i", ",", " ", "t", "h", "e", " ", "c", "h",
         "i", "l", "d", "r", "e", "n", " ", "o", "f", " ", "H", "a", "n", "a", "n", ",">> >>,
    << <<"E", "z", "r", "a">>, 2, 51,
       <<"T", "h", "e", " ", "c", "h", "i", "l", "d", "r", "e", "n", " ", "o", "f", " ", "B", "a",
         "k", "b", "u", "k", ",", " ", "t", "h", "e", " ", "c", "h", "i", "l", "d", "r", "e", "n",
         " ", "o", "f", " ", "H", "a", "k", "u", "p", "h", "a", ",", " ", "t", "h", "e", " ", "c",
         "h", "i", "l", "d", "r", "e", "n", " ", "o", "f", " ", "H", "a", "r", "h", "u", "r", ",">> >>,
    << <<"E", "z", "r", "a">>, 2, 52,
       <<"T", "h", "e", " ", "c", "h", "i", "l", "d", "r", "e", "n", " ", "o", "f", " ", "B", "a",
         "z", "l", "u", "t", "h", ",", " ", "t", "h", "e", " ", "c", "h", "i", "l", "d", "r", "e",
         "n", " ", "o", "f", " ", "M", "e", "h", "i", "d", "a", ",", " ", "t", "h", "e", " ", "c",
         "h", "i", "l", "d", "r", "e", "n", " ", "o", "f", " ", "H", "a", "r", "s", "h", "a", ",">> >>,
    << <<"E", "z", "r", "a">>, 2, 56,
       <<"T", "h", "e", " ", "c", "h", "i", "l", "d", "r", "e", "n", " ", "o", "f", " ", "J", "a",
         "a", "l", "a", "h", ",", " ", "t", "h", "e", " ", "c", "h", "i", "l", "d", "r", "e", "n",
         " ", "o", "f", " ", "D", "a", "r", "k", "o", "n", ",", " ", "t", "h", "e", " ", "c", "h",
         "i", "l", "d", "r", "e", "n", " ", "o", "f", " ", "G", "i", "d", "d", "e", "l", ",">> >>,
    << <<"E", "z", "r", "a">>, 7, 3,
       <<"T", "h", "e", " ", "s", "o", "n", " ", "o", "f", " ", "A", "m", "a", "r", "i", "a", "h",
         ",", " ", "t", "h", "e", " ", "s", "o", "n", " ", "o", "f", " ", "A", "z", "a", "r", "i",
         "a", "h", ",", " ", "t", "h", "e", " ", "s", "o", "n", " ", "o", "f", " ", "M", "e", "r",
         "a", "i", "o", "t", "h", ",">> >>,
    << <<"E", "z", "r", "a">>, 7, 4,
       <<"T", "h", "e", " ", "s", "o", "n", " ", "o", "f", " ", "Z", "e", "r", "a", "h", "i", "a",
         "h", ",", " ", "t", "h", "e", " ", "s", "o", "n", " ", "o", "f", " ", "U", "z", "z", "i",
         ",", " ", "t", "h", "e", " ", "s", "o", "n", " ", "o", "f", " ", "B", "u", "k", "k", "i",
         ",">> >>,
    << <<"G", "a", "l", "a", "t", "i", "a", "n", "s">>, 1, 2,
       <<"A", "n", "d", " ", "a", "l", "l", " ", "t", "h", "e", " ", "b", "r", "e", "t", "h", "r",
         "e", "n", " ", "w", "h", "i", "c", "h", " ", "a", "r", "e", " ", "w", "i", "t", "h", " ",
         "m", "e", ",", " ", "u", "n", "t", "o", " ", "t", "h", "e", " ", "c", "h", "u", "r", "c",
         "h", "e", "s", " ", "o", "f", " ", "G", "a", "l", "a", "t", "i", "a", ":">> >>,
    << <<"G", "a", "l", "a", "t", "i", "a", "n", "s">>, 2, 15,
       <<"W", "e", " ", "w", "h", "o", " ", "a", "r", "e", " ", "J", "e", "w", "s", " ", "b", "y",
         " ", "n", "a", "t", "u", "r", "e", ",", " ", "a", "n", "d", " ", "n", "o", "t", " ", "s",
         "i", "n", "n", "e", "r", "s", " ", "o", "f", " ", "t", "h", "e", " ", "G", "e", "n", "t",
         "i", "l", "e", "s", ",">> >>,
    << <<"G", "e", "n", "e", "s", "i", "s">>, 10, 16,
       <<"A", "n", "d", " ", "t", "h", "e", " ", "J", "e", "b", "u", "s", "i", "t", "e", ",", " ",
         "a", "n", "d", " ", "t", "h", "e", " ", "A", "m", "o", "r", "i", "t", "e", ",", " ", "a",
         "n", "d", " ", "t", "h", "e", " ", "G", "i", "r", "g", "a", "s", "i", "t", "e", ",">> >>,
    << <<"G", "e", "n", "e", "s", "i", "s">>, 10, 17,
       <<"A", "n", "d", " ", "t", "h", "e", " ", "H", "i", "v", "i", "t", "e", ",", " ", "a", "n",
         "d", " ", "t", "h", "e", " ", "A", "r", "k", "i", "t", "e", ",", " ", "a", "n", "d", " ",
         "t", "h", "e", " ", "S", "i", "n", "i", "t", "e", ",">> >>,
    << <<"G", "e", "n", "e", "s", "i", "s">>, 10, 28,
       <<"A", "n", "d", " ", "O", "b", "a", "l", ",", " ", "a", "n", "d", " ", "A", "b", "i", "m",
         "a", "e", "l", ",", " ", "a", "n", "d", " ", "S", "h", "e", "b", "a", ",">> >>,
    << <<"G", "e", "n", "e", "s", "i", "s">>, 15, 19,
       <<"T", "h", "e", " ", "K", "e", "n", "i", "t", "e", "s", ",", " ", "a", "n", "d", " ", "t",
         "h", "e", " ", "K", "e", "n", "i", "z", "z", "i", "t", "e", "s", ",", " ", "a", "n", "d",
         " ", "t", "h", "e", " ", "K", "a", "d", "m", "o", "n", "i", "t", "e", "s", ",">> >>,
    << <<"G", "e", "n", "e", "s", "i", "s">>, 15, 20,
       <<"A", "n", "d", " ", "t", "h", "e", " ", "H", "i", "t", "t", "i", "t", "e", "s", ",", " ",
         "a", "n", "d", " ", "t", "h", "e", " ", "P", "e", "r", "i", "z", "z", "i", "t", "e", "s",
         ",", " ", "a", "n", "d", " ", "t", "h", "e", " ", "R", "e", "p", "h", "a", "i", "m", "s",
         ",">> >>,
    << <<"G", "e", "n", "e", "s", "i", "s">>, 17, 18,
       <<"A", "n", "d", " ", "A", "b", "r", "a", "h", "a", "m", " ", "s", "a", "i", "d", " ", "u",
         "n", "t", "o", " ", "G", "o", "d", ",", " ", "O", " ", "t", "h", "a", "t", " ", "I", "s",
         "h", "m", "a", "e", "l", " ", "m", "i", "g", "h", "t", " ", "l", "i", "v", "e", " ", "b",
         "e", "f", "o", "r", "e", " ", "t", "h", "e", "e", "!">> >>,
    << <<"G", "e", "n", "e", "s", "i", "s">>, 26, 6,
       <<"A", "n", "d", " ", "I", "s", "a", "a", "c", " ", "d", "w", "e", "l", "t", " ", "i", "n",
         " ", "G", "e", "r", "a", "r", ":">> >>,
    << <<"G", "e", "n", "e", "s", "i", "s">>, 28, 8,
       <<"A", "n", "d", " ", "E", "s", "a", "u", " ", "s", "e", "e", "i", "n", "g", " ", "t", "h",
         "a", "t", " ", "t", "h", "e", " ", "d", "a", "u", "g", "h", "t", "e", "r", "s", " ", "o",
         "f", " ", "C", "a", "n", "a", "a", "n", " ", "p", "l", "e", "a", "s", "e", "d", " ", "n",
         "o", "t", " ", "I", "s", "a", "a", "c", " ", "h", "i", "s", " ", "f", "a", "t", "h", "e",
         "r", ";">> >>
>>

\* lines 89-102: the book names fix_incomplete_verses looks for
fix_book_names == <<
    <<"G", "e", "n", "e", "s", "i", "s">>,
    <<"E", "x", "o", "d", "u", "s">>,
    <<"L", "e", "v", "i", "t", "i", "c", "u", "s">>,
    <<"N", "u", "m", "b", "e", "r", "s">>,
    <<"D", "e", "u", "t", "e", "r", "o", "n", "o", "m", "y">>,
    <<"J", "o", "s", "h", "u", "a">>,
    <<"J", "u", "d", "g", "e", "s">>,
    <<"R", "u", "t", "h">>,
    <<"1", " ", "S", "a", "m", "u", "e", "l">>,
    <<"2", " ", "S", "a", "m", "u", "e", "l">>,
    <<"1", " ", "K", "i", "n", "g", "s">>,
    <<"2", " ", "K", "i", "n", "g", "s">>,
    <<"1", " ", "C", "h", "r", "o", "n", "i", "c", "l", "e", "s">>,
    <<"2", " ", "C", "h", "r", "o", "n", "i", "c", "l", "e", "s">>,
    <<"E", "z", "r", "a">>,
    <<"N", "e", "h", "e", "m", "i", "a", "h">>,
    <<"E", "s", "t", "h", "e", "r">>,
    <<"J", "o", "b">>,
    <<"P", "s", "a", "l", "m">>,
    <<"P", "s", "a", "l", "m", "s">>,
    <<"P", "r", "o", "v", "e", "r", "b", "s">>,
    <<"E", "c", "c", "l", "e", "s", "i", "a", "s", "t", "e", "s">>,
    <<"S", "o", "n", "g", " ", "o", "f", " ", "S", "o", "l", "o", "m", "o", "n">>,
    <<"S", "o", "n", "g", " ", "o", "f", " ", "S", "o", "n", "g", "s">>,
    <<"I", "s", "a", "i", "a", "h">>,
    <<"J", "e", "r", "e", "m", "i", "a", "h">>,
    <<"L", "a", "m", "e", "n", "t", "a", "t", "i", "o", "n", "s">>,
    <<"E", "z", "e", "k", "i", "e", "l">>,
    <<"D", "a", "n", "i", "e", "l">>,
    <<"H", "o", "s", "e", "a">>,
    <<"J", "o", "e", "l">>,
    <<"A", "m", "o", "s">>,
    <<"O", "b", "a", "d", "i", "a", "h">>,
    <<"J", "o", "n", "a", "h">>,
    <<"M", "i", "c", "a", "h">>,
    <<"N", "a", "h", "u", "m">>,
    <<"H", "a", "b", "a", "k", "k", "u", "k">>,
    <<"Z", "e", "p", "h", "a", "n", "i", "a", "h">>,
    <<"H", "a", "g", "g", "a", "i">>,
    <<"Z", "e", "c", "h", "a", "r", "i", "a", "h">>,
    <<"M", "a", "l", "a", "c", "h", "i">>,
    <<"M", "a", "t", "t", "h", "e", "w">>,
    <<"M", "a", "r", "k">>,
    <<"L", "u", "k", "e">>,
    <<"J", "o", "h", "n">>,
    <<"A", "c", "t", "s">>,
    <<"R", "o", "m", "a", "n", "s">>,
    <<"1", " ", "C", "o", "r", "i", "n", "t", "h", "i", "a", "n", "s">>,
    <<"2", " ", "C", "o", "r", "i", "n", "t", "h", "i", "a", "n", "s">>,
    <<"G", "a", "l", "a", "t", "i", "a", "n", "s">>,
    <<"E", "p", "h", "e", "s", "i", "a", "n", "s">>,
    <<"P", "h", "i", "l", "i", "p", "p", "i", "a", "n", "s">>,
    <<"C", "o", "l", "o", "s", "s", "i", "a", "n", "s">>,
    <<"1", " ", "T", "h", "e", "s", "s", "a", "l", "o", "n", "i", "a", "n", "s">>,
    <<"2", " ", "T", "h", "e", "s", "s", "a", "l", "o", "n", "i", "a", "n", "s">>,
    <<"1", " ", "T", "i", "m", "o", "t", "h", "y">>,
    <<"2", " ", "T", "i", "m", "o", "t", "h", "y">>,
    <<"T", "i", "t", "u", "s">>,
    <<"P", "h", "i", "l", "e", "m", "o", "n">>,
    <<"H", "e", "b", "r", "e", "w", "s">>,
    <<"J", "a", "m", "e", "s">>,
    <<"1", " ", "P", "e", "t", "e", "r">>,
    <<"2", " ", "P", "e", "t", "e", "r">>,
    <<"1", " ", "J", "o", "h", "n">>,
    <<"2", " ", "J", "o", "h", "n">>,
    <<"3", " ", "J", "o", "h", "n">>,
    <<"J", "u", "d", "e">>,
    <<"R", "e", "v", "e", "l", "a", "t", "i", "o", "n">>
>>

\* lines 6-66: get_complete_verse_text(book, chapter, verse); <<>> stands
\* for None
get_complete_verse_text(book, chapter, verse) ==
    LET hits == {i \in 1..Len(verse_fixes) :
                    /\ verse_fixes[i][1] = book
                    /\ verse_fixes[i][2] = chapter
                    /\ verse_fixes[i][3] = verse}
    IN IF hits = {} THEN <<>>
       ELSE verse_fixes[CHOOSE i \in hits : \A j \in hits : j <= i][4]

\* stripped.split(None, 1) for a stripped text that is not empty:
\* <<parts[0], parts[1]>>, parts[1] being <<>> when there is one part
SplitOnce(stripped) ==
    LET stops == {j \in 1..Len(stripped) : stripped[j] \in Space}
    IN IF stops = {} THEN <<stripped, <<>> >>
       ELSE << SubSeq(stripped, 1, (CHOOSE j \in stops : \A k \in stops : j <= k) - 1),
               Strip(SubSeq(stripped, CHOOSE j \in stops : \A k \in stops : j <= k,
                            Len(stripped))) >>

\* line 128: the condition under which a verse line is replaced
ShouldFix(complete_text, verse_text) ==
    /\ complete_text # <<>>
    /\ \/ Len(verse_text) < 30
       \/ /\ \/ EndsWith(verse_text, <<";">>)
             \/ EndsWith(verse_text, <<",">>)
             \/ EndsWith(verse_text, <<":">>)
          /\ ~EndsWith(verse_text, <<".">>)

\* a handler that drops the line whose number does not parse
FixBadNumberDropped(line, L) == L

\* lines 134-137: int(parts[0]) has raised ValueError; the handler passes
\* and the line is copied
FixBadNumber(line, L) == [L EXCEPT !.output_lines = Append(@, line)]

\* a verse branch that keeps the recorded text and writes the table's text
\* after it
FixVerseLineAppended(line, stripped, L) ==
    IF ~IsDigitStr(SplitOnce(stripped)[1])
    THEN FixBadNumber(line, L)
    ELSE IF ShouldFix(get_complete_verse_text(L.current_book, L.current_chapter,
                                              StrToInt(SplitOnce(stripped)[1])),
                      SplitOnce(stripped)[2])
    THEN [L EXCEPT
             !.output_lines =
                 Append(@, IntToStr(StrToInt(SplitOnce(stripped)[1])) \o <<" ">>
                           \o SplitOnce(stripped)[2] \o <<" ">>
                           \o get_complete_verse_text(L.current_book, L.current_chapter,
                                                      StrToInt(SplitOnce(stripped)[1]))
                           \o <<"\n">>),
             !.fixes_applied =
                 Append(@, <<L.current_book, L.current_chapter,
                             StrToInt(SplitOnce(stripped)[1])>>)]
    ELSE [L EXCEPT !.output_lines = Append(@, line)]

\* lines 119-138: a line that begins with a digit
FixVerseLine(line, stripped, L) ==
    IF ~IsDigitStr(SplitOnce(stripped)[1])
    THEN FixBadNumber(line, L)
    ELSE IF ShouldFix(get_complete_verse_text(L.current_book, L.current_chapter,
                                              StrToInt(SplitOnce(stripped)[1])),
                      SplitOnce(stripped)[2])
    THEN [L EXCEPT
             !.output_lines =
                 Append(@, IntToStr(StrToInt(SplitOnce(stripped)[1])) \o <<" ">>
                           \o get_complete_verse_text(L.current_book, L.current_chapter,
                                                      StrToInt(SplitOnce(stripped)[1]))
                           \o <<"\n">>),
             !.fixes_applied =
                 Append(@, <<L.current_book, L.current_chapter,
                             StrToInt(SplitOnce(stripped)[1])>>)]
    ELSE [L EXCEPT !.output_lines = Append(@, line)]

\* lines 80-138: one iteration of the loop over the lines
FixIterAt(line, stripped, L) ==
    IF stripped = <<>>
    THEN [L EXCEPT !.output_lines = Append(@, line)]
    ELSE IF /\ ~StartsWith(stripped, <<"C", "h", "a", "p", "t", "e", "r">>)
            /\ \A i \in 1..Len(stripped) : i <= 3 => stripped[i] \notin Digit
            /\ \E k \in 1..Len(fix_book_names) : fix_book_names[k] = stripped
    THEN [L EXCEPT !.current_book = stripped,
                   !.current_chapter = NoneInt,
                   !.output_lines = Append(@, line)]
    ELSE IF StartsWith(stripped, <<"C", "h", "a", "p", "t", "e", "r", " ">>)
    THEN [L EXCEPT !.current_chapter =
                       IF IsDigitStr(SplitWs(stripped, 1)[2])
                       THEN StrToInt(SplitWs(stripped, 1)[2]) ELSE @,
                   !.output_lines = Append(@, line)]
    ELSE IF stripped[1] \in Digit
    THEN FixVerseLine(line, stripped, L)
    ELSE [L EXCEPT !.output_lines = Append(@, line)]

FixIter(line, L) == FixIterAt(line, Strip(line), L)

\* line 141: f.writelines(output_lines), the lines one after the other
WriteLines(output_lines) == JoinWith(output_lines, <<>>)

\* line 70: f.readlines(), the text cut after each line feed; a last line
\* without a line feed is a line too
ReadLines(text) ==
    LET ends == {j \in 1..Len(text) : text[j] = "\n" \/ j = Len(text)}
    IN [k \in 1..Cardinality(ends) |->
           SubSeq(text,
                  IF k = 1 THEN 1
                  ELSE 1 + CHOOSE e \in ends : Cardinality({j \in ends : j <= e}) = k - 1,
                  CHOOSE e \in ends : Cardinality({j \in ends : j <= e}) = k)]

\* ------------------------------------------------------------------------
\* Inputs and bounds
\* ------------------------------------------------------------------------

\* lines read by one run of a Gutenberg converter
MaxGutenbergLines == 4

EzraTitle == <<"E", "z", "r", "a">>
JoelTitle == <<"J", "o", "e", "l">>

\* the lines a Gutenberg input is made of: book titles, lines with one and
\* with two references, a reference with no text, free text, a blank line
KjvLines == {
    EzraTitle,
    JoelTitle,
    <<"1", ":", "1", " ", "a">>,
    <<"1", ":", "2", " ", "b", " ", "2", ":", "1", " ", "c", " ">>,
    <<"1", ":", "4">>,
    <<" ", "x">>,
    <<>> }

GutLines == {
    GenesisTitle \o <<"\n">>,
    EzraTitle \o <<"\n">>,
    <<"1", ":", "1", " ", "a", "\n">>,
    <<"1", ":", "2", " ", "b", " ", "2", ":", "1", " ", "c", "\n">>,
    <<"1", ":", "4", "\n">>,
    <<" ", "x", "\n">>,
    <<"\n">> }

\* verses handed to one call of write_verses
MaxVerses == 3

WvVerses == [chapter : {1, 2}, verse : {3, 12},
             text : {<<"a">>, <<"a", " ", " ", "b">>}]

RECURSIVE SeqsUpTo(_, _)
\* the sequences over S of length at most n
SeqsUpTo(S, n) ==
    IF n = 0 THEN {<<>>}
    ELSE LET shorter == SeqsUpTo(S, n - 1)
         IN shorter \cup {Append(q, x) : q \in shorter, x \in S}

WvInputs == SeqsUpTo(WvVerses, MaxVerses)

\* lines read by one run of parse_usfm_file
MaxUsfmLines == 5

\* the names of the file parse_usfm_file reads: one with a digit before the
\* book code, one without a book code
UsfmFileNames == {
    <<"5", "2", "C", "O", "L", ".", "u", "s", "f", "m">>,
    <<"x", ".", "u", "s", "f", "m">> }

\* the lines a USFM file is made of: chapter markers, verse markers (verse
\* 1 twice, verse 2 with a text that cleaning empties, verse 1 with a word
\* that carries a strong attribute), free text
UsfmLines == {
    <<BSL, "c", " ", "1", "\n">>,
    <<BSL, "c", " ", "2", "\n">>,
    <<BSL, "v", " ", "1", " ", "a", "\n">>,
    <<BSL, "v", " ", "1", " ", "e", "\n">>,
    <<BSL, "v", " ", "2", " ", "p", "\n">>,
    <<BSL, "v", " ", "1", " ", "a", "|", "s", "t", "r", "o", "n", "g", "=", DQ, "H", "1", DQ,
      " ", "e", "\n">>,
    <<"d", "\n">> }

\* the file names of a directory convert_usfm_directory reads
DirNames == {
    <<"0", "0", "-", "G", "E", "N", ".", "u", "s", "f", "m">>,
    <<"0", "1", "G", "E", "N", ".", "S", "F", "M">>,
    <<"4", "9", "G", "A", "L", ".", "u", "s", "f", "m">>,
    <<"5", "2", "C", "O", "L", ".", "u", "s", "f", "m">>,
    <<"2", "C", "O", ".", "s", "f", "m">>,
    <<"G", "A", "L", ".", "t", "x", "t">> }

\* the contents of a file of the directory: no line; a chapter with verse 1
\* twice and a verse 2 that cleaning empties; two chapters
DirContents == {
    <<>>,
    << <<BSL, "c", " ", "1", "\n">>, <<BSL, "v", " ", "1", " ", "a", "\n">>,
       <<BSL, "v", " ", "1", " ", "e", "\n">>, <<BSL, "v", " ", "2", " ", "p", "\n">> >>,
    << <<BSL, "c", " ", "1", "\n">>, <<BSL, "v", " ", "3", " ", "d", "\n">>,
       <<BSL, "c", " ", "2", "\n">>, <<BSL, "v", " ", "1", " ", "e", "\n">> >> }

\* a directory: file name -> lines of the file
Directories == UNION {[S -> DirContents] : S \in SUBSET DirNames}

\* length of a text handed to clean_usfm_text
MaxCleanLen == 4

CleanChars == {"a", "b", " ", DQ, BSL, "+", ".", "1", ":"}

\* marked-up texts: a word marker group with and without an attribute, a
\* bare attribute
CleanExamples == {
    <<BSL, "w", " ", "a", "|", "s", "t", "r", "o", "n", "g", "=", DQ, "H", "1", DQ,
      BSL, "w", "*", " ", "c">>,
    <<BSL, "w", " ", "a", BSL, "w", "*", " ", "c">>,
    <<"a", "|", "s", "t", "r", "o", "n", "g", "=", DQ, "H", "1", DQ, " ", "c">> }

CleanInputs == SeqsUpTo(CleanChars, MaxCleanLen) \cup CleanExamples

\* chapter numbers of the .json files of a book directory
MaxChapter == 3

\* .json files in one book directory
MaxJsonFiles == 3

\* the stems of the .json files: chapter numbers, a number with a leading
\* zero, a stem that is not a number
JsonStems == {IntToStr(n) : n \in 0..MaxChapter} \cup {<<"0", "1">>, <<"x">>}

JsonFiles == {
    [content |-> "ok", writable |-> TRUE],
    [content |-> "ok", writable |-> FALSE],
    [content |-> "malformed", writable |-> TRUE],
    [content |-> "nokey", writable |-> TRUE] }

BookDirs ==
    UNION {[S -> JsonFiles] :
              S \in {T \in SUBSET JsonStems : Cardinality(T) <= MaxJsonFiles}}

\* what out/kjv holds beside the directory Ezra: nothing, a plain file, a
\* second book directory
OtherEntries == {
    << >>,
    << [name |-> JoelTitle, is_dir |-> FALSE, files |-> << >>] >>,
    << [name |-> JoelTitle, is_dir |-> TRUE,
        files |-> (<<"1">> :> [content |-> "ok", writable |-> TRUE])] >>,
    << [name |-> JoelTitle, is_dir |-> TRUE,
        files |-> (<<"1">> :> [content |-> "malformed", writable |-> TRUE]
                   @@ <<"2">> :> [content |-> "ok", writable |-> TRUE])] >> }

\* out/kjv: missing, or its entries in sorted order
JsonTrees ==
    {[exists |-> FALSE, entries |-> << >>]}
    \cup {[exists |-> TRUE,
           entries |-> <<[name |-> EzraTitle, is_dir |-> TRUE, files |-> d]>> \o o] :
             d \in BookDirs, o \in OtherEntries}

\* lines read by one run of fix_incomplete_verses
MaxFixLines == 4

\* the lines of a canonical file: two book headers (one whose name begins
\* with a digit), a chapter header, verse 2 with a short text, with the text
\* the table has for Colossians 6:2 (long, ending with "."), with a long
\* text ending with ";", a line whose number does not parse, a verse that
\* no book of the table has, a blank line
FixLines == {
    <<"C", "o", "l", "o", "s", "s", "i", "a", "n", "s", "\n">>,
    <<"2", " ", "T", "i", "m", "o", "t", "h", "y", "\n">>,
    <<"C", "h", "a", "p", "t", "e", "r", " ", "6", "\n">>,
    <<"2", " ", "a", ",", "\n">>,
    <<"2", " ">> \o get_complete_verse_text(<<"C", "o", "l", "o", "s", "s", "i", "a", "n", "s">>, 6, 2)
        \o <<"\n">>,
    <<"2", " ">> \o get_complete_verse_text(<<"E", "p", "h", "e", "s", "i", "a", "n", "s">>, 4, 23)
        \o <<"\n">>,
    <<"2", "x", " ", "a", "\n">>,
    <<"5", " ", "a", "\n">>,
    <<"\n">> }

\* the lines of a file that is fixed twice: a book header, a chapter header,
\* verse 23 with a short text and with the text the table has for Ephesians
\* 4:23 (which ends with ";"), a book header that begins with a digit (the
\* table has Ephesians 4:2), a blank line
FixTwiceLines == {
    <<"E", "p", "h", "e", "s", "i", "a", "n", "s", "\n">>,
    <<"C", "h", "a", "p", "t", "e", "r", " ", "4", "\n">>,
    <<"2", "3", " ", "a", "\n">>,
    <<"2", "3", " ">> \o get_complete_verse_text(<<"E", "p", "h", "e", "s", "i", "a", "n", "s">>, 4, 23)
        \o <<"\n">>,
    <<"2", " ", "T", "i", "m", "o", "t", "h", "y", "\n">>,
    <<"\n">> }

\* a last line that does not end with a line feed
FixTwiceLastLines == FixTwiceLines \cup {<<"2", "3", " ", "a", ",">>}

\* the files fixed twice, as readlines gives them: every line but the last
\* ends with a line feed
FixTwiceFiles ==
    {<<>>} \cup UNION {
        {Append(f, last) : f \in [1..n -> FixTwiceLines], last \in FixTwiceLastLines}
        : n \in 0..(MaxFixLines - 1)}

\* ------------------------------------------------------------------------
\* State
\* ------------------------------------------------------------------------

VARIABLES
    prog,     \* what runs: "kjv" (convert_kjv), "gut"
              \* (convert_gutenberg_to_kjv_format), "usfm" (parse_usfm_file),
              \* "dir" (convert_usfm_directory), "write" (write_verses alone),
              \* "clean" (clean_usfm_text alone), "html"
              \* (convert_all_kjv_json_to_html), "fix" (fix_incomplete_verses),
              \* "twice" (fix_incomplete_verses run on a file and on its output)
    pc,       \* where the run is; "done" when it has returned
    input,    \* what the run was given: the lines read so far, the file name
              \* and its lines, the directory, the verses, the text
    loc       \* the locals of the running script

vars == <<prog, pc, input, loc>>

KjvInit ==
    /\ prog = "kjv"
    /\ pc = "loop"
    /\ input = <<>>
    /\ loc = [output_lines |-> <<>>, skip_mode |-> TRUE, current_book |-> NoBook, verses |-> <<>>,
              current_text |-> <<>>, current_chapter |-> NoneInt, current_verse |-> NoneInt]

GutInit ==
    /\ prog = "gut"
    /\ pc = "loop"
    /\ input = <<>>
    /\ loc = [output_lines |-> <<>>, current_book |-> NoBook, verses |-> <<>>, current_text |-> <<>>,
              current_chapter |-> NoneInt, current_verse |-> NoneInt, genesis_count |-> 0, content_started |-> FALSE]

\* convert_kjv reads one more line
KjvLine ==
    /\ prog = "kjv" /\ pc = "loop"
    /\ Len(input) < MaxGutenbergLines
    /\ \E line \in KjvLines :
          /\ input' = Append(input, line)
          /\ loc' = KjvIter(line, loc)
    /\ UNCHANGED <<prog, pc>>

\* convert_kjv reaches the end of the input and writes the file
KjvFinish ==
    /\ prog = "kjv" /\ pc = "loop"
    /\ loc' = KjvEnd(loc)
    /\ pc' = "done"
    /\ UNCHANGED <<prog, input>>

\* convert_gutenberg_to_kjv_format reads one more line
GutLine ==
    /\ prog = "gut" /\ pc = "loop"
    /\ Len(input) < MaxGutenbergLines
    /\ \E line \in GutLines :
          /\ input' = Append(input, line)
          /\ loc' = GutIter(line, loc)
    /\ UNCHANGED <<prog, pc>>

\* convert_gutenberg_to_kjv_format reaches the end of the input
GutFinish ==
    /\ prog = "gut" /\ pc = "loop"
    /\ loc' = GutEnd(loc)
    /\ pc' = "done"
    /\ UNCHANGED <<prog, input>>

KjvNext == KjvLine \/ KjvFinish

GutNext == GutLine \/ GutFinish

KjvSpec == KjvInit /\ [][KjvNext]_vars

GutSpec == GutInit /\ [][GutNext]_vars

\* write_verses is called with a list of verses and the lines written so far
WvInit ==
    /\ prog = "write"
    /\ pc = "call"
    /\ input \in WvInputs
    /\ \E o \in {<<>>, <<EzraTitle>>} : loc = [output_lines |-> o]

\* the call write_verses(verses, output_lines)
WvCall ==
    /\ prog = "write" /\ pc = "call"
    /\ loc' = [output_lines |-> write_verses(input, loc.output_lines), before |-> loc.output_lines]
    /\ pc' = "done"
    /\ UNCHANGED <<prog, input>>

WvNext == WvCall

WvSpec == WvInit /\ [][WvNext]_vars

\* parse_usfm_file is called for a file of some name
UsfmInit ==
    /\ prog = "usfm"
    /\ pc = "open"
    /\ \E f \in UsfmFileNames : input = [name |-> f, lines |-> <<>>]
    /\ loc = [book_name |-> NoBook, chapters |-> <<>>]

\* lines 125-154: the book code is looked up in the file name; without a
\* code the function returns (None, [])
UsfmOpen ==
    /\ prog = "usfm" /\ pc = "open"
    /\ IF DetectBookCode(input.name) = NoCode
       THEN pc' = "done" /\ UNCHANGED loc
       ELSE pc' = "loop" /\ loc' = UsfmStart(DetectBookCode(input.name))
    /\ UNCHANGED <<prog, input>>

\* parse_usfm_file reads one more line
UsfmLine ==
    /\ prog = "usfm" /\ pc = "loop"
    /\ Len(input.lines) < MaxUsfmLines
    /\ \E line \in UsfmLines :
          /\ input' = [input EXCEPT !.lines = Append(@, line)]
          /\ loc' = UsfmIter(line, loc)
    /\ UNCHANGED <<prog, pc>>

\* parse_usfm_file reaches the end of the file and returns
UsfmFinish ==
    /\ prog = "usfm" /\ pc = "loop"
    /\ loc' = UsfmEnd(loc)
    /\ pc' = "done"
    /\ UNCHANGED <<prog, input>>

UsfmNext == UsfmOpen \/ UsfmLine \/ UsfmFinish

UsfmSpec == UsfmInit /\ [][UsfmNext]_vars

\* convert_usfm_directory is called on a directory
DirInit ==
    /\ prog = "dir"
    /\ pc = "start"
    /\ input \in Directories
    /\ loc = [files |-> <<>>, done |-> 0, output_lines |-> <<>>,
              processed_books |-> <<>>, duplicate_warnings |-> <<>>,
              written |-> FALSE, reported |-> <<>>]

\* lines 228-250: the files are listed and ordered; without a file the
\* function returns and writes nothing
DirStart ==
    /\ prog = "dir" /\ pc = "start"
    /\ loc' = [loc EXCEPT !.files = FilesInOrder(DOMAIN input)]
    /\ pc' = IF FilesInOrder(DOMAIN input) = <<>> THEN "done" ELSE "loop"
    /\ UNCHANGED <<prog, input>>

\* lines 252-280: the next file is parsed and its book written
DirFile ==
    /\ prog = "dir" /\ pc = "loop"
    /\ loc.done < Len(loc.files)
    /\ LET f == loc.files[loc.done + 1]
           D == DirIter(parse_usfm_file(f, input[f]), loc)
       IN loc' = [D EXCEPT !.done = @ + 1]
    /\ UNCHANGED <<prog, pc, input>>

\* lines 282-296: the output file is written, the first ten warnings printed
DirFinish ==
    /\ prog = "dir" /\ pc = "loop"
    /\ loc.done = Len(loc.files)
    /\ loc' = [DirEnd(loc) EXCEPT
                  !.written = TRUE,
                  !.reported = SubSeq(loc.duplicate_warnings, 1,
                                      IF Len(loc.duplicate_warnings) > 10 THEN 10
                                      ELSE Len(loc.duplicate_warnings))]
    /\ pc' = "done"
    /\ UNCHANGED <<prog, input>>

DirNext == DirStart \/ DirFile \/ DirFinish

DirSpec == DirInit /\ [][DirNext]_vars

\* clean_usfm_text is called on a text, and again on its result
CleanInit ==
    /\ prog = "clean"
    /\ pc = "call"
    /\ input \in CleanInputs
    /\ loc = [once |-> <<>>, twice |-> <<>>]

CleanOnce ==
    /\ prog = "clean" /\ pc = "call"
    /\ loc' = [loc EXCEPT !.once = clean_usfm_text(input)]
    /\ pc' = "once"
    /\ UNCHANGED <<prog, input>>

CleanTwice ==
    /\ prog = "clean" /\ pc = "once"
    /\ loc' = [loc EXCEPT !.twice = clean_usfm_text(loc.once)]
    /\ pc' = "twice"
    /\ UNCHANGED <<prog, input>>

CleanNext == CleanOnce \/ CleanTwice

CleanSpec == CleanInit /\ [][CleanNext]_vars

\* convert_all_kjv_json_to_html is called
HtmlInit ==
    /\ prog = "html"
    /\ pc = "start"
    /\ input \in JsonTrees
    /\ loc = [b |-> 0, json_files |-> <<>>, converted |-> 0, html |-> <<>>,
              errors |-> <<>>, html_dirs |-> {}, reported |-> NoneInt]

\* lines 70-80: without out/kjv the function returns
HtmlStart ==
    /\ prog = "html" /\ pc = "start"
    /\ pc' = IF input.exists THEN "loop" ELSE "done"
    /\ UNCHANGED <<prog, input, loc>>

\* lines 81-89: the next entry of out/kjv; a directory gets its html
\* directory and its .json files are listed in sorted order
HtmlBook ==
    /\ prog = "html" /\ pc = "loop"
    /\ loc.json_files = <<>>
    /\ loc.b < Len(input.entries)
    /\ IF input.entries[loc.b + 1].is_dir
       THEN \E q \in JsonFileOrders(DOMAIN input.entries[loc.b + 1].files) :
               loc' = [loc EXCEPT !.b = @ + 1, !.json_files = q,
                                  !.html_dirs = @ \cup {input.entries[loc.b + 1].name}]
       ELSE loc' = [loc EXCEPT !.b = @ + 1]
    /\ UNCHANGED <<prog, pc, input>>

\* lines 91-109: the next file of the book; int(json_file.stem) stands
\* before the try, so its ValueError leaves the function
HtmlFile ==
    /\ prog = "html" /\ pc = "loop"
    /\ loc.json_files # <<>>
    /\ IF IsDigitStr(Head(loc.json_files))
       THEN /\ loc' = [ConvertJsonFile(input.entries[loc.b].name, input.entries[loc.b].files,
                                       Head(loc.json_files), StrToInt(Head(loc.json_files)), loc)
                          EXCEPT !.json_files = Tail(@)]
            /\ UNCHANGED pc
       ELSE pc' = "raised" /\ UNCHANGED loc
    /\ UNCHANGED <<prog, input>>

\* line 111: after the last entry the count is printed
HtmlFinish ==
    /\ prog = "html" /\ pc = "loop"
    /\ loc.json_files = <<>>
    /\ loc.b = Len(input.entries)
    /\ loc' = [loc EXCEPT !.reported = loc.converted]
    /\ pc' = "done"
    /\ UNCHANGED <<prog, input>>

HtmlNext == HtmlStart \/ HtmlBook \/ HtmlFile \/ HtmlFinish

HtmlSpec == HtmlInit /\ [][HtmlNext]_vars

\* fix_incomplete_verses is called
FixInit ==
    /\ prog = "fix"
    /\ pc = "loop"
    /\ input = <<>>
    /\ loc = [current_book |-> NoBook, current_chapter |-> NoneInt,
              fixes_applied |-> <<>>, output_lines |-> <<>>, written |-> <<>>]

\* lines 79-138: the loop takes the next line of the file
FixLine ==
    /\ prog = "fix" /\ pc = "loop"
    /\ Len(input) < MaxFixLines
    /\ \E line \in FixLines :
          /\ input' = Append(input, line)
          /\ loc' = FixIter(line, loc)
    /\ UNCHANGED <<prog, pc>>

\* lines 140-143: after the last line the output file is written and the
\* list of fixes returned
FixFinish ==
    /\ prog = "fix" /\ pc = "loop"
    /\ loc' = [loc EXCEPT !.written = loc.output_lines]
    /\ pc' = "done"
    /\ UNCHANGED <<prog, input>>

FixNext == FixLine \/ FixFinish

FixSpec == FixInit /\ [][FixNext]_vars

\* the script runs on its own: an iteration or the return that can be taken
\* is taken
FixLiveSpec == FixInit /\ [][FixNext]_vars /\ WF_vars(FixNext)

\* fix_incomplete_verses is called on a file, in place
FixTwiceInit ==
    /\ prog = "twice"
    /\ pc = "loop"
    /\ input \in FixTwiceFiles
    /\ loc = [run |-> 1, lines |-> input, i |-> 0, first |-> <<>>,
              current_book |-> NoBook, current_chapter |-> NoneInt,
              fixes_applied |-> <<>>, output_lines |-> <<>>, written |-> <<>>]

\* lines 79-138: one iteration of the loop, on line i of the file
FixTwiceLine ==
    /\ prog = "twice" /\ pc = "loop"
    /\ loc.i < Len(loc.lines)
    /\ loc' = [FixIter(loc.lines[loc.i + 1], loc) EXCEPT !.i = loc.i + 1]
    /\ UNCHANGED <<prog, pc, input>>

\* lines 140-143: the index has reached the end, the file is written
FixTwiceWrite ==
    /\ prog = "twice" /\ pc = "loop"
    /\ loc.i = Len(loc.lines)
    /\ loc' = [loc EXCEPT !.written = WriteLines(loc.output_lines)]
    /\ pc' = "done"
    /\ UNCHANGED <<prog, input>>

\* lines 68-77: the script is called again, on the file it has written
FixTwiceAgain ==
    /\ prog = "twice" /\ pc = "done"
    /\ loc.run = 1
    /\ loc' = [run |-> 2, lines |-> ReadLines(loc.written), i |-> 0, first |-> loc.written,
               current_book |-> NoBook, current_chapter |-> NoneInt,
               fixes_applied |-> <<>>, output_lines |-> <<>>, written |-> <<>>]
    /\ pc' = "loop"
    /\ UNCHANGED <<prog, input>>

FixTwiceNext == FixTwiceLine \/ FixTwiceWrite \/ FixTwiceAgain

FixTwiceSpec == FixTwiceInit /\ [][FixTwiceNext]_vars

\* the three converters together
Init == KjvInit \/ GutInit \/ UsfmInit \/ DirInit

Next ==
    \/ KjvLine \/ KjvFinish
    \/ GutLine \/ GutFinish
    \/ UsfmOpen \/ UsfmLine \/ UsfmFinish
    \/ DirStart \/ DirFile \/ DirFinish

Spec == Init /\ [][Next]_vars

\* ------------------------------------------------------------------------
\* Reading the canonical output
\* ------------------------------------------------------------------------

\* a book-name header line
IsBookName(l) == \E i \in 1..Len(book_mapping) : book_mapping[i][2] = l

\* a "Chapter N" header line
IsChapterHeader(l) == StartsWith(l, <<"C", "h", "a", "p", "t", "e", "r", " ">>)

\* a verse line: it starts with the verse number
IsVerseLine(l) == l # <<>> /\ l[1] \in Digit /\ ~IsBookName(l)

\* the text of a verse line: what follows the number and one space
VerseLineText(l) ==
    LET nd == {i \in 1..Len(l) : l[i] \notin Digit}
        e == IF nd = {} THEN Len(l) + 1 ELSE CHOOSE i \in nd : \A j \in nd : i <= j
    IN SubSeq(l, e + 1, Len(l))

\* the output holds a line for verse v under a "Chapter c" header
OutHasVerse(out, c, v) ==
    \E k \in 1..Len(out) :
        /\ StartsWith(out[k], IntToStr(v) \o <<" ">>)
        /\ \E h \in 1..(k - 1) :
              /\ out[h] = ChapterHeader(c)
              /\ \A g \in (h + 1)..(k - 1) : ~IsChapterHeader(out[g])

\* the lines convert_kjv reads as content: those after the first book title
\* line (skip_mode is off from there on) that are not titles themselves
KjvContentLines ==
    {i \in 1..Len(input) :
        /\ ~IsBookTitle(Strip(input[i]))
        /\ \E k \in 1..(i - 1) : IsBookTitle(Strip(input[k]))}

\* the lines convert_gutenberg_to_kjv_format reads as content: those after
\* the second line holding the Genesis title that are not titles themselves
GutContentLines ==
    {i \in 1..Len(input) :
        /\ ~IsBookTitle(Strip(input[i]))
        /\ Cardinality({k \in 1..(i - 1) :
                           Contains(Strip(input[k]), GenesisTitle)}) >= 2}

\* the references of input line i
RefsOf(i) == ReFindIter(verse_ref_pattern, Strip(input[i]), 1)

\* reference j of input line i is followed by text on its line
RefHasText(i, j) ==
    LET ls == Strip(input[i])
        ms == RefsOf(i)
    IN Strip(SubSeq(ls, ms[j].e,
                    IF j < Len(ms) THEN ms[j + 1].b - 1 ELSE Len(ls))) # <<>>

\* ------------------------------------------------------------------------
\* Reading a USFM file as its markers stand in it
\* ------------------------------------------------------------------------

\* line i of a file as the parser sees it
UsfmSeen(lines, i) == RStrip(preprocess_usfm_line(RStrip(lines[i])))

\* line i is a chapter marker
IsChapterMarker(lines, i) ==
    /\ ~IsMetadata(UsfmSeen(lines, i))
    /\ StartsWith(UsfmSeen(lines, i), <<BSL, "c">>)
    /\ ReMatch(chapter_pattern, UsfmSeen(lines, i)) # <<>>

\* line i is a verse marker
IsVerseMarker(lines, i) ==
    /\ ~IsMetadata(UsfmSeen(lines, i))
    /\ ~StartsWith(UsfmSeen(lines, i), <<BSL, "c">>)
    /\ ReMatch(verse_pattern, UsfmSeen(lines, i)) # <<>>

\* line i is free text
IsFreeText(lines, i) ==
    /\ ~IsMetadata(UsfmSeen(lines, i))
    /\ ~StartsWith(UsfmSeen(lines, i), <<BSL, "c">>)
    /\ ~StartsWith(UsfmSeen(lines, i), <<BSL, "v">>)

\* the number of the chapter marker at line i
ChapterNumAt(lines, i) ==
    StrToInt(Group(UsfmSeen(lines, i), ReMatch(chapter_pattern, UsfmSeen(lines, i))[1], 1))

\* the number of the verse marker at line i
VerseNumAt(lines, i) ==
    StrToInt(Group(UsfmSeen(lines, i), ReMatch(verse_pattern, UsfmSeen(lines, i))[1], 1))

\* the first marker line after line i, Len(lines) + 1 when there is none
NextMarker(lines, i) ==
    IF \E j \in (i + 1)..Len(lines) : IsChapterMarker(lines, j) \/ IsVerseMarker(lines, j)
    THEN CHOOSE j \in (i + 1)..Len(lines) :
            /\ IsChapterMarker(lines, j) \/ IsVerseMarker(lines, j)
            /\ \A k \in (i + 1)..(j - 1) :
                  ~(IsChapterMarker(lines, k) \/ IsVerseMarker(lines, k))
    ELSE Len(lines) + 1

\* the first chapter marker after line i, Len(lines) + 1 when there is none
NextChapter(lines, i) ==
    IF \E j \in (i + 1)..Len(lines) : IsChapterMarker(lines, j)
    THEN CHOOSE j \in (i + 1)..Len(lines) :
            /\ IsChapterMarker(lines, j)
            /\ \A k \in (i + 1)..(j - 1) : ~IsChapterMarker(lines, k)
    ELSE Len(lines) + 1

\* the cleaned text of the verse occurrence at marker line i: the rest of
\* the marker line and the free text up to the next marker
OccText(lines, i) ==
    clean_usfm_text(Strip(Join(
        OneIfText(IF Strip(Group(UsfmSeen(lines, i),
                                 ReMatch(verse_pattern, UsfmSeen(lines, i))[1], 2)) # <<>>
                  THEN Group(UsfmSeen(lines, i),
                             ReMatch(verse_pattern, UsfmSeen(lines, i))[1], 2)
                  ELSE <<>>)
        \o [k \in 1..Len(SelectSeq([j \in 1..(NextMarker(lines, i) - i - 1) |-> i + j],
                                   LAMBDA j : IsFreeText(lines, j))) |->
               UsfmSeen(lines, SelectSeq([j \in 1..(NextMarker(lines, i) - i - 1) |-> i + j],
                                         LAMBDA j : IsFreeText(lines, j))[k])])))

\* the occurrences of verse n with a text in the chapter that the marker at
\* line c opens, in file order
OccsOf(lines, c, n) ==
    SelectSeq([j \in 1..(NextChapter(lines, c) - c - 1) |-> c + j],
              LAMBDA j : /\ IsVerseMarker(lines, j)
                         /\ VerseNumAt(lines, j) = n
                         /\ OccText(lines, j) # <<>>)

\* the cleaned texts of those occurrences joined by one space
MergedText(lines, c, n) ==
    Join([k \in 1..Len(OccsOf(lines, c, n)) |-> OccText(lines, OccsOf(lines, c, n)[k])])

\* the verse numbers that stand more than once, with a text, in the chapter
\* that the marker at line c opens
RepeatedVerses(lines, c) ==
    {n \in {VerseNumAt(lines, j) :
               j \in {k \in (c + 1)..(NextChapter(lines, c) - 1) : IsVerseMarker(lines, k)}} :
        Len(OccsOf(lines, c, n)) >= 2}

\* the position of a book name in book_order
BookOrderIndex(name) ==
    CHOOSE i \in 1..Len(book_order) : BookNameOf(book_order[i]) = name

\* ------------------------------------------------------------------------
\* Claims
\* ------------------------------------------------------------------------

\* C1: in parse_usfm_file, when a verse number occurs more than once between
\* two chapter markers, the returned chapter holds a single entry for that
\* number, and its text is the cleaned texts of the occurrences joined by one
\* space in file order.
C1_DuplicatesMergedInOrder ==
    (prog = "usfm" /\ pc = "done") =>
        \A c \in {i \in 1..Len(input.lines) : IsChapterMarker(input.lines, i)} :
            \A n \in RepeatedVerses(input.lines, c) :
                \E k \in 1..Len(loc.chapters) :
                    /\ loc.chapters[k][1] = ChapterNumAt(input.lines, c)
                    /\ Cardinality({i \in 1..Len(loc.chapters[k][2]) :
                                       loc.chapters[k][2][i][1] = n}) = 1
                    /\ \E i \in 1..Len(loc.chapters[k][2]) :
                          loc.chapters[k][2][i] = <<n, MergedText(input.lines, c, n)>>

\* C2: when convert_usfm_directory has written a chapter with a verse that
\* was merged from several occurrences, a warning naming that book, chapter
\* and verse is in duplicate_warnings and is reported at the end of the run.
C2_MergedVerseIsWarned ==
    (prog = "dir" /\ pc = "done" /\ loc.written) =>
        \A f \in DOMAIN input :
            \A c \in {i \in 1..Len(input[f]) : IsChapterMarker(input[f], i)} :
                \A n \in RepeatedVerses(input[f], c) :
                    (\E k \in 1..Len(loc.output_lines) :
                        loc.output_lines[k] = VerseLine(n, MergedText(input[f], c, n)))
                    => \E w \in 1..Len(loc.reported) :
                          /\ loc.reported[w].chapter = ChapterNumAt(input[f], c)
                          /\ loc.reported[w].verse = n

\* C3: in convert_kjv, for a content line with two or more references, a
\* verse is emitted for every reference of the line that is followed by text
\* and no emitted verse line holds a chapter:verse reference.
C3_OneVersePerReference ==
    (prog = "kjv" /\ pc = "done") =>
        /\ \A i \in KjvContentLines :
              Len(RefsOf(i)) >= 2 =>
                 \A j \in 1..Len(RefsOf(i)) :
                    RefHasText(i, j) =>
                       OutHasVerse(loc.output_lines,
                                   StrToInt(Group(Strip(input[i]), RefsOf(i)[j], 1)),
                                   StrToInt(Group(Strip(input[i]), RefsOf(i)[j], 2)))
        /\ \A k \in 1..Len(loc.output_lines) :
              ReSearch(verse_ref_pattern, loc.output_lines[k]) = <<>>

\* C4: in convert_gutenberg_to_kjv_format every reference of a content line
\* is a verse boundary: a verse is emitted for every reference followed by
\* text, and no emitted verse line holds a chapter:verse reference (the text
\* of a verse ends where the next reference begins).
C4_EveryReferenceIsBoundary ==
    (prog = "gut" /\ pc = "done") =>
        /\ \A i \in GutContentLines :
              \A j \in 1..Len(RefsOf(i)) :
                 RefHasText(i, j) =>
                    OutHasVerse(loc.output_lines,
                                StrToInt(Group(Strip(input[i]), RefsOf(i)[j], 1)),
                                StrToInt(Group(Strip(input[i]), RefsOf(i)[j], 2)))
        /\ \A k \in 1..Len(loc.output_lines) :
              ReSearch(verse_ref_pattern, loc.output_lines[k]) = <<>>

\* the lines write_verses appended, blank lines left out
WvBody == SelectSeq(SubSeq(loc.output_lines, Len(loc.before) + 1, Len(loc.output_lines)),
                    LAMBDA l : l # <<>>)

RECURSIVE WvExpected(_)
\* a header before verse 1 and before each verse whose chapter differs from
\* that of the verse before it, and one "<number> <text>" line per verse
WvExpected(k) ==
    IF k = 0 THEN <<>>
    ELSE WvExpected(k - 1)
         \o (IF k = 1 \/ input[k].chapter # input[k - 1].chapter
             THEN <<ChapterHeader(input[k].chapter)>> ELSE <<>>)
         \o <<VerseLine(input[k].verse, NormWs(input[k].text))>>

\* C5: write_verses writes a "Chapter N" header exactly before the first
\* verse and before each verse whose chapter number differs from that of the
\* verse before it, and every verse as "<number> <text>" (the text with its
\* whitespace normalised) in input order; the lines written before the call
\* are kept.
C5_HeaderPerChapterRun ==
    (prog = "write" /\ pc = "done") =>
        /\ WvBody = WvExpected(Len(input))
        /\ SubSeq(loc.output_lines, 1, Len(loc.before)) = loc.before

\* C5 witness: two verses of one chapter, then a verse of another chapter
C5_Witness ==
    /\ prog = "write" /\ pc = "done"
    /\ Len(input) = 3
    /\ input[1].chapter = input[2].chapter
    /\ input[2].chapter # input[3].chapter
    /\ Len(WvBody) = 5

\* C6: in the output of a Gutenberg converter no "Chapter N" header and no
\* verse line stands before the first book-name line.
C6_BookNameFirst ==
    (prog \in {"kjv", "gut"} /\ pc = "done") =>
        \A k \in 1..Len(loc.output_lines) :
            (IsChapterHeader(loc.output_lines[k]) \/ IsVerseLine(loc.output_lines[k])) =>
                \E h \in 1..(k - 1) : IsBookName(loc.output_lines[h])

\* the verse lines of the output all have a text
VerseLinesHaveText(out) ==
    \A k \in 1..Len(out) : IsVerseLine(out[k]) => NormWs(VerseLineText(out[k])) # <<>>

\* C7: every verse a converter holds or writes has a text that is not empty
\* after whitespace normalisation: the verse records and verse lines of the
\* Gutenberg converters, the verses of parse_usfm_file, the verse lines of
\* convert_usfm_directory. A verse whose text is blank is not among them.
C7_NoBlankVerse ==
    /\ prog \in {"kjv", "gut"} =>
          /\ \A k \in 1..Len(loc.verses) : NormWs(loc.verses[k].text) # <<>>
          /\ VerseLinesHaveText(loc.output_lines)
    /\ (prog = "usfm" /\ "current_verses" \in DOMAIN loc) =>
          \A k \in 1..Len(loc.current_verses) : NormWs(loc.current_verses[k][2]) # <<>>
    /\ prog = "usfm" =>
          \A k \in 1..Len(loc.chapters) :
             \A i \in 1..Len(loc.chapters[k][2]) : NormWs(loc.chapters[k][2][i][2]) # <<>>
    /\ prog = "dir" => VerseLinesHaveText(loc.output_lines)

\* C7 witness: convert_kjv has read a reference with no text after a verse
\* with a text, and has written the one and not the other
C7_Witness ==
    /\ prog = "kjv" /\ pc = "done"
    /\ Len(input) = 3
    /\ input[1] = EzraTitle
    /\ RefsOf(2) # <<>> /\ RefHasText(2, Len(RefsOf(2)))
    /\ Len(RefsOf(3)) = 1 /\ ~RefHasText(3, 1)
    /\ Cardinality({k \in 1..Len(loc.output_lines) : IsVerseLine(loc.output_lines[k])})
          = Len(RefsOf(2))

\* C8: every verse list parse_usfm_file holds or returns, and so every
\* chapter block convert_usfm_directory writes, has each verse number at
\* most once.
C8_VerseNumbersUnique ==
    /\ (prog = "usfm" /\ "current_verses" \in DOMAIN loc) =>
          \A i, j \in 1..Len(loc.current_verses) :
             loc.current_verses[i][1] = loc.current_verses[j][1] => i = j
    /\ prog = "usfm" =>
          \A k \in 1..Len(loc.chapters) :
             \A i, j \in 1..Len(loc.chapters[k][2]) :
                loc.chapters[k][2][i][1] = loc.chapters[k][2][j][1] => i = j
    /\ prog = "dir" =>
          \A i, j \in 1..Len(loc.output_lines) :
             (/\ i < j
              /\ IsVerseLine(loc.output_lines[i]) /\ IsVerseLine(loc.output_lines[j])
              /\ \A k \in i..j : ~IsChapterHeader(loc.output_lines[k]))
             => SubSeq(loc.output_lines[i], 1, Len(loc.output_lines[i]) - Len(VerseLineText(loc.output_lines[i])))
                # SubSeq(loc.output_lines[j], 1, Len(loc.output_lines[j]) - Len(VerseLineText(loc.output_lines[j])))

\* C8 witness: parse_usfm_file has returned a chapter whose verse was read
\* twice and stands once, with both texts
C8_Witness ==
    /\ prog = "usfm" /\ pc = "done"
    /\ \E c \in {i \in 1..Len(input.lines) : IsChapterMarker(input.lines, i)} :
          \E n \in RepeatedVerses(input.lines, c) :
             \E k \in 1..Len(loc.chapters) :
                \E i \in 1..Len(loc.chapters[k][2]) :
                   loc.chapters[k][2][i] = <<n, MergedText(input.lines, c, n)>>

\* C9: convert_usfm_directory writes the books in the order of book_order:
\* of two books written, the one whose code stands earlier in book_order is
\* written first.
C9_BooksInCanonicalOrder ==
    prog = "dir" =>
        \A i, j \in 1..Len(loc.processed_books) :
            i < j => BookOrderIndex(loc.processed_books[i])
                        < BookOrderIndex(loc.processed_books[j])

\* C10: clean_usfm_text is idempotent: cleaning a cleaned text gives the
\* same text.
C10_Idempotent ==
    (prog = "clean" /\ pc = "twice") => loc.twice = loc.once

\* C11: a verse line "\v 1 <words>|strong="<id>" <words>" yields verse 1 with
\* the words alone: the file "\c 1", "\v 1 a|strong="H1" e" gives chapter 1
\* with verse 1 "a e", and no verse text parse_usfm_file returns holds a
\* strong attribute.
C11_StrongAttributeRemoved ==
    (prog = "usfm" /\ pc = "done" /\ loc.book_name # NoBook) =>
        /\ input.lines = << <<BSL, "c", " ", "1", "\n">>,
                            <<BSL, "v", " ", "1", " ", "a", "|", "s", "t", "r", "o", "n", "g",
                              "=", DQ, "H", "1", DQ, " ", "e", "\n">> >>
              => loc.chapters = << <<1, << <<1, <<"a", " ", "e">> >> >> >> >>
        /\ \A k \in 1..Len(loc.chapters) :
              \A i \in 1..Len(loc.chapters[k][2]) :
                 ~Contains(loc.chapters[k][2][i][2], <<"|", "s", "t", "r", "o", "n", "g", "=">>)

\* C12: in convert_all_kjv_json_to_html no file ends the run: the function
\* never leaves by an exception, and when it has returned, every file of
\* every book directory is either converted (its html page is written) or
\* logged as an error, the files that can be read, rendered and written
\* being converted.
C12_BadFileNeverAbortsBatch ==
    prog = "html" =>
        /\ pc # "raised"
        /\ (pc = "done" /\ input.exists) =>
              \A e \in 1..Len(input.entries) :
                 input.entries[e].is_dir =>
                    \A s \in DOMAIN input.entries[e].files :
                       IF /\ IsDigitStr(s)
                          /\ input.entries[e].files[s].content = "ok"
                          /\ input.entries[e].files[s].writable
                       THEN \E h \in 1..Len(loc.html) :
                               /\ loc.html[h].book = input.entries[e].name
                               /\ loc.html[h].chapter = StrToInt(s)
                       ELSE \E k \in 1..Len(loc.errors) :
                               loc.errors[k] = <<input.entries[e].name, s>>

\* the stems of the .json files of the book directory of a name
StemsOfBook(book) ==
    DOMAIN input.entries[CHOOSE e \in 1..Len(input.entries) :
                            input.entries[e].name = book].files

\* C13: for every page written for chapter n of a book, prev is n-1 exactly
\* when n > 1 and (n-1).json is in the book directory, next is n+1 exactly
\* when (n+1).json is in it, and each is None otherwise; for two pages of
\* one book for chapters n >= 1 and n+1 whose files n.json and (n+1).json
\* are there, the first has next = n+1 if and only if the second has
\* prev = n.
C13_AdjacentByFilePresence ==
    prog = "html" =>
        /\ \A h \in 1..Len(loc.html) :
              /\ loc.html[h].prev_chapter =
                    (IF /\ loc.html[h].chapter > 1
                        /\ IntToStr(loc.html[h].chapter - 1) \in StemsOfBook(loc.html[h].book)
                     THEN loc.html[h].chapter - 1 ELSE NoneInt)
              /\ loc.html[h].next_chapter =
                    (IF IntToStr(loc.html[h].chapter + 1) \in StemsOfBook(loc.html[h].book)
                     THEN loc.html[h].chapter + 1 ELSE NoneInt)
        /\ \A h, g \in 1..Len(loc.html) :
              (/\ loc.html[h].book = loc.html[g].book
               /\ loc.html[h].chapter >= 1
               /\ loc.html[g].chapter = loc.html[h].chapter + 1
               /\ IntToStr(loc.html[h].chapter) \in StemsOfBook(loc.html[h].book)
               /\ IntToStr(loc.html[g].chapter) \in StemsOfBook(loc.html[h].book))
              => (loc.html[h].next_chapter = loc.html[g].chapter
                     <=> loc.html[g].prev_chapter = loc.html[h].chapter)

\* C13 witness: pages of chapters 1 and 2 of a book without 3.json and
\* with 0.json are written: chapter 1 has no prev and next 2, chapter 2 has
\* prev 1 and no next
C13_Witness ==
    /\ prog = "html" /\ pc = "done" /\ input.exists
    /\ <<"0">> \in StemsOfBook(EzraTitle)
    /\ \E h, g \in 1..Len(loc.html) :
          /\ loc.html[h] = [book |-> EzraTitle, chapter |-> 1,
                            prev_chapter |-> NoneInt, next_chapter |-> 2]
          /\ loc.html[g] = [book |-> EzraTitle, chapter |-> 2,
                            prev_chapter |-> 1, next_chapter |-> NoneInt]

\* ------------------------------------------------------------------------
\* Reading a canonical file as its headers stand in it
\* ------------------------------------------------------------------------

\* line i is a book-name header: one of the canonical names
IsFixBookHeader(i) ==
    \E k \in 1..Len(fix_book_names) : fix_book_names[k] = Strip(input[i])

\* line i is a "Chapter N" header
IsFixChapterHeader(i) ==
    /\ StartsWith(Strip(input[i]), <<"C", "h", "a", "p", "t", "e", "r", " ">>)
    /\ IsDigitStr(SplitWs(Strip(input[i]), 1)[2])

\* line i is a verse line: it begins with a number and is no book header
IsFixVerseLine(i) ==
    /\ Strip(input[i]) # <<>>
    /\ IsDigitStr(SplitOnce(Strip(input[i]))[1])
    /\ ~IsFixBookHeader(i)

\* the nearest book-name header above line i, 0 when there is none
FixHeaderAbove(i) ==
    IF \E k \in 1..(i - 1) : IsFixBookHeader(k)
    THEN CHOOSE k \in 1..(i - 1) :
            IsFixBookHeader(k) /\ \A h \in (k + 1)..(i - 1) : ~IsFixBookHeader(h)
    ELSE 0

\* the book of line i
FixBookAt(i) ==
    IF FixHeaderAbove(i) = 0 THEN NoBook ELSE Strip(input[FixHeaderAbove(i)])

\* the chapter of line i: the number of the nearest "Chapter N" header
\* above it in its book
FixChapterAt(i) ==
    IF \E k \in (FixHeaderAbove(i) + 1)..(i - 1) : IsFixChapterHeader(k)
    THEN StrToInt(SplitWs(Strip(input[
            CHOOSE k \in (FixHeaderAbove(i) + 1)..(i - 1) :
               IsFixChapterHeader(k) /\ \A h \in (k + 1)..(i - 1) : ~IsFixChapterHeader(h)]), 1)[2])
    ELSE NoneInt

\* the verse number of line i
FixVerseAt(i) == StrToInt(SplitOnce(Strip(input[i]))[1])

\* the text the table has for line i, <<>> when it has none
FixTableText(i) == get_complete_verse_text(FixBookAt(i), FixChapterAt(i), FixVerseAt(i))

\* C14: a line that fix_incomplete_verses has changed is a verse line, and
\* it now holds the text the table has for its own book (the book of the
\* nearest book-name header above it, names that begin with a digit
\* included), chapter and verse.
C14_FixedFromOwnBook ==
    prog = "fix" =>
        \A i \in 1..Len(loc.output_lines) :
            loc.output_lines[i] # input[i] =>
                /\ IsFixVerseLine(i)
                /\ FixTableText(i) # <<>>
                /\ loc.output_lines[i] =
                      IntToStr(FixVerseAt(i)) \o <<" ">> \o FixTableText(i) \o <<"\n">>

\* a line that begins with a digit and whose leading token is no number
IsBadNumberLine(line) ==
    /\ Strip(line) # <<>>
    /\ Strip(line)[1] \in Digit
    /\ ~IsDigitStr(SplitOnce(Strip(line))[1])

\* C15: when the loop of fix_incomplete_verses takes a line that begins
\* with a digit and whose leading token is not a number, it appends the line
\* unchanged, records no fix, and the run goes on.
C15_BadNumberPassedThrough ==
    [][(prog = "fix" /\ pc = "loop" /\ Len(input') = Len(input) + 1
        /\ IsBadNumberLine(input'[Len(input')]))
       => /\ loc'.output_lines = Append(loc.output_lines, input'[Len(input')])
          /\ loc'.fixes_applied = loc.fixes_applied
          /\ pc' = "loop"]_vars

\* C15 witness: a line whose number does not parse was copied, and the verse
\* line after it was replaced
C15_Witness ==
    /\ prog = "fix" /\ pc = "done"
    /\ Len(input) = 4
    /\ IsBadNumberLine(input[3])
    /\ loc.written[3] = input[3]
    /\ loc.written[4] # input[4]
    /\ Len(loc.fixes_applied) = 1

\* C16: when parse_usfm_file has returned, every verse marker with a text
\* that is not empty after cleaning, standing between a chapter marker and
\* the next one (or the end of the file), has its number in a verse list
\* returned for that chapter; so the chapter is among the chapters returned.
C16_EveryVerseOfChapterKept ==
    (prog = "usfm" /\ pc = "done" /\ loc.book_name # NoBook) =>
        \A c \in {i \in 1..Len(input.lines) : IsChapterMarker(input.lines, i)} :
            \A j \in (c + 1)..(NextChapter(input.lines, c) - 1) :
                (IsVerseMarker(input.lines, j) /\ OccText(input.lines, j) # <<>>) =>
                    \E k \in 1..Len(loc.chapters) :
                        /\ loc.chapters[k][1] = ChapterNumAt(input.lines, c)
                        /\ \E i \in 1..Len(loc.chapters[k][2]) :
                              loc.chapters[k][2][i][1] = VerseNumAt(input.lines, j)

\* the book-title lines a Gutenberg converter reads as titles: every title
\* line in convert_kjv, those after the second Genesis title line in
\* convert_gutenberg_to_kjv_format
TitleLines ==
    {t \in 1..Len(input) :
        /\ IsBookTitle(Strip(input[t]))
        /\ prog = "gut" =>
              /\ ~Contains(Strip(input[t]), GenesisTitle)
              /\ Cardinality({k \in 1..(t - 1) :
                                 Contains(Strip(input[k]), GenesisTitle)}) >= 2}

\* the index of the k-th book-name line of the output
NthBookLine(out, k) ==
    CHOOSE n \in 1..Len(out) :
        /\ IsBookName(out[n])
        /\ Cardinality({m \in 1..n : IsBookName(out[m])}) = k

\* between lines a and b the output holds, under a "Chapter c" header, a
\* line for verse v that begins with the text
SegmentHasVerse(out, a, b, c, v, text) ==
    \E n \in (a + 1)..(b - 1) :
        /\ StartsWith(out[n], VerseLine(v, text))
        /\ \E h \in (a + 1)..(n - 1) :
              /\ out[h] = ChapterHeader(c)
              /\ \A g \in (h + 1)..(n - 1) : ~IsChapterHeader(out[g])

\* the reference a converter is accumulating after line i: the last one of
\* the line in convert_kjv, the first one in
\* convert_gutenberg_to_kjv_format
OpenRef(i) == IF prog = "kjv" THEN Len(RefsOf(i)) ELSE 1

\* the text reference j of line i has on its line
RefText(i, j) ==
    NormWs(SubSeq(Strip(input[i]), RefsOf(i)[j].e,
                  IF j < Len(RefsOf(i)) THEN RefsOf(i)[j + 1].b - 1
                  ELSE Len(Strip(input[i]))))

\* C17: when a Gutenberg converter has finished, for every book-title line
\* that follows another one, the verse that was being accumulated when the
\* title was reached (the last reference read since the title before, if it
\* has a text) stands, with its text, in the block of the preceding book.
C17_LastVerseOfBookKept ==
    (prog \in {"kjv", "gut"} /\ pc = "done") =>
        \A t \in TitleLines : \A p \in TitleLines :
            (/\ p < t
             /\ \A q \in TitleLines : ~(p < q /\ q < t)
             /\ \E i \in (p + 1)..(t - 1) : RefsOf(i) # <<>>)
            => LET i == CHOOSE i \in (p + 1)..(t - 1) :
                           /\ RefsOf(i) # <<>>
                           /\ \A m \in (i + 1)..(t - 1) : RefsOf(m) = <<>>
                   k == Cardinality({q \in TitleLines : q <= t})
               IN RefHasText(i, OpenRef(i)) =>
                     SegmentHasVerse(loc.output_lines,
                                     NthBookLine(loc.output_lines, k - 1),
                                     NthBookLine(loc.output_lines, k),
                                     StrToInt(Group(Strip(input[i]), RefsOf(i)[OpenRef(i)], 1)),
                                     StrToInt(Group(Strip(input[i]), RefsOf(i)[OpenRef(i)], 2)),
                                     RefText(i, OpenRef(i)))

\* C18: when convert_kjv has finished, for a content line with several
\* references, every reference but the last that has a text is written as a
\* verse line whose text is exactly the text between it and the next
\* reference.
C18_TextAttributedOnce ==
    (prog = "kjv" /\ pc = "done") =>
        \A i \in KjvContentLines :
            \A j \in 1..(Len(RefsOf(i)) - 1) :
                RefHasText(i, j) =>
                    \E k \in 1..Len(loc.output_lines) :
                        loc.output_lines[k] =
                            VerseLine(StrToInt(Group(Strip(input[i]), RefsOf(i)[j], 2)),
                                      RefText(i, j))

\* the text holds a word-level marker: "\w", then white space
HasWordMarker(text) ==
    \E i \in 1..(Len(text) - 2) :
        text[i] = BSL /\ text[i + 1] = "w" /\ text[i + 2] \in Space

\* C19: clean_usfm_text replaces a word marker group by its text alone:
\* "\w a|strong="H1"\w* c" and "\w a\w* c" both give "a c", and the result
\* for a text with a word marker holds no attribute part and no closing
\* marker letters.
C19_WordMarkerGivesText ==
    (prog = "clean" /\ pc = "once" /\ HasWordMarker(input)) =>
        /\ ~Contains(loc.once, <<"|">>)
        /\ ~Contains(loc.once, <<"w", "*">>)
        /\ input \in {<<BSL, "w", " ", "a", "|", "s", "t", "r", "o", "n", "g", "=", DQ, "H", "1",
                         DQ, BSL, "w", "*", " ", "c">>,
                       <<BSL, "w", " ", "a", BSL, "w", "*", " ", "c">>}
              => loc.once = <<"a", " ", "c">>

\* the text recorded for the verse at line i
FixRecordedText(i) == SplitOnce(Strip(input[i]))[2]

\* C20: fix_incomplete_verses replaces a verse line if and only if the table
\* has a text for its book, chapter and verse and its recorded text is
\* shorter than 30 characters or ends with ";", "," or ":"; every other
\* verse line is written as it was read.
C20_ReplacedIffInTableAndIncomplete ==
    prog = "fix" =>
        \A i \in 1..Len(loc.output_lines) :
            IsFixVerseLine(i) =>
                loc.output_lines[i] =
                    IF /\ FixTableText(i) # <<>>
                       /\ \/ Len(FixRecordedText(i)) < 30
                          \/ EndsWith(FixRecordedText(i), <<";">>)
                          \/ EndsWith(FixRecordedText(i), <<",">>)
                          \/ EndsWith(FixRecordedText(i), <<":">>)
                    THEN IntToStr(FixVerseAt(i)) \o <<" ">> \o FixTableText(i) \o <<"\n">>
                    ELSE input[i]

\* line i is a verse the table completes: a verse line for whose book,
\* chapter and verse the table has a text, recorded with a text shorter than
\* 30 characters or ending with ";", "," or ":"
IsReplacedVerse(i) ==
    /\ IsFixVerseLine(i)
    /\ FixTableText(i) # <<>>
    /\ \/ Len(FixRecordedText(i)) < 30
       \/ EndsWith(FixRecordedText(i), <<";">>)
       \/ EndsWith(FixRecordedText(i), <<",">>)
       \/ EndsWith(FixRecordedText(i), <<":">>)

\* text is one line: it ends with its only line feed
IsOneLine(text) ==
    /\ text # <<>>
    /\ \A j \in 1..Len(text) : text[j] = "\n" <=> j = Len(text)

\* one output line stands for each line taken, in the order of the file;
\* a line that is not a replaced verse (a blank line, a book header, a
\* chapter header, a verse the table does not complete) is the line read
FixLinesKept ==
    prog = "fix" =>
        /\ Len(loc.output_lines) = Len(input)
        /\ \A i \in 1..Len(loc.output_lines) :
              IF IsReplacedVerse(i)
              THEN IsOneLine(loc.output_lines[i])
              ELSE loc.output_lines[i] = input[i]
        /\ pc = "done" => loc.written = loc.output_lines

\* C21: fix_incomplete_verses returns on every input, and it writes one
\* output line for each input line in the same order: each iteration takes
\* one line and appends one, and every line that is not a replaced verse
\* (blank lines, book headers, chapter headers, unmatched verses) is copied
\* as it was read.
C21_OneLinePerLineAndReturns ==
    /\ []FixLinesKept
    /\ <>(prog = "fix" => pc = "done")

\* C22: fix_incomplete_verses run on the file it has written writes the
\* same file again, line for line; a verse that the first run replaced by
\* its table text holds that text after the second run.
C22_SecondRunWritesSame ==
    (prog = "twice" /\ pc = "done" /\ loc.run = 2) =>
        /\ loc.written = loc.first
        /\ loc.output_lines = loc.lines

\* C22 witness: the first run has replaced a verse by a table text that
\* ends with ";", and the second run has replaced the line again
C22_Witness ==
    /\ prog = "twice" /\ pc = "done" /\ loc.run = 2
    /\ loc.first # WriteLines(input)
    /\ loc.fixes_applied # <<>>
    /\ \E i \in 1..Len(loc.lines) :
          /\ input[i] = <<"2", "3", " ", "a", "\n">>
          /\ loc.lines[i] = <<"2", "3", " ">>
                \o get_complete_verse_text(<<"E", "p", "h", "e", "s", "i", "a", "n", "s">>, 4, 23)
                \o <<"\n">>

\* the pages the run has written: the html files by book and chapter
HtmlPages == {<<loc.html[g].book, loc.html[g].chapter>> : g \in 1..Len(loc.html)}

\* every previous or next chapter passed to the template of a page is a
\* chapter of the same book that has a page of this run
HtmlLinksGenerated ==
    \A g \in 1..Len(loc.html) :
        /\ loc.html[g].prev_chapter # NoneInt =>
              <<loc.html[g].book, loc.html[g].prev_chapter>> \in HtmlPages
        /\ loc.html[g].next_chapter # NoneInt =>
              <<loc.html[g].book, loc.html[g].next_chapter>> \in HtmlPages

\* the count printed at the end is the number of html files written
HtmlCountIsPages == loc.reported = Cardinality(HtmlPages)

\* C23: when convert_all_kjv_json_to_html has returned, every previous or
\* next chapter link of a generated page points to a chapter for which a
\* page was generated in the same run (never to a chapter whose JSON file
\* exists but failed to convert), and the count it reports is the number of
\* html files written.
C23_LinksOnlyToGeneratedPages ==
    (prog = "html" /\ pc = "done" /\ input.exists) =>
        /\ HtmlLinksGenerated
        /\ HtmlCountIsPages

====
